---- MODULE Spec2Model ----
(***************************************************************************)
(* colocale: catalog resolution (pickMessages), plural selection and       *)
(* placeholder substitution (createTranslator).                            *)
(*                                                                         *)
(* JavaScript strings are sequences of one-character strings, so that key  *)
(* formation (`${namespace}.${key}`, `${baseKey}${suffix}`) and            *)
(* String.prototype.replaceAll are computed, not assumed.                  *)
(***************************************************************************)
EXTENDS Integers, Sequences, FiniteSets, TLC

VARIABLES catalog, requirements, messages, call, result, op

vars == <<catalog, requirements, messages, call, result, op>>

-----------------------------------------------------------------------------
(* Strings *)

DOT == <<".">>
OPEN == <<"{", "{">>
CLOSE == <<"}", "}">>

S_k == <<"k">>
S_x == <<"x">>
S_n == <<"n">>
S_m == <<"m">>
S_pq == <<"p", ".", "q">>
S_count == <<"c", "o", "u", "n", "t">>
S_name == <<"a">>
S_other2 == <<"b">>

SUF_zero == <<"_", "z", "e", "r", "o">>
SUF_one == <<"_", "o", "n", "e">>
SUF_two == <<"_", "t", "w", "o">>
SUF_few == <<"_", "f", "e", "w">>
SUF_many == <<"_", "m", "a", "n", "y">>
SUF_other == <<"_", "o", "t", "h", "e", "r">>

\* JS undefined
Undefined == [type |-> "undefined"]

StrVal(s) == [type |-> "string", str |-> s]
NumVal(n) == [type |-> "number", num |-> n]
ObjVal == [type |-> "object"]

EmptyMap == [key \in {} |-> Undefined]

\* obj[key] = value on a map (object property assignment)
Put(obj, key, value) ==
  [kk \in DOMAIN obj \cup {key} |-> IF kk = key THEN value ELSE obj[kk]]

-----------------------------------------------------------------------------
(* utils: getNestedValue, flat structure *)

\* obj[key] on a map; undefined when the property is absent
Get(obj, key) == IF key \in DOMAIN obj THEN obj[key] ELSE Undefined

\* mutant: the typeof check is dropped and an object entry is coerced to text
getNestedValueNoTypeCheck(obj, key) ==
  LET value == Get(obj, key)
  IN IF value.type = "string" THEN value
     ELSE IF value.type = "object" THEN StrVal(<<"[", "o", "]">>)
     ELSE Undefined

\* mutant: a key with a dot is walked as a path into nested objects
getNestedValuePathFirst(obj, key) ==
  LET dots == {i \in 1..Len(key) : key[i] = "."}
  IN IF dots = {}
     THEN (IF Get(obj, key).type = "string" THEN Get(obj, key) ELSE Undefined)
     ELSE LET d == CHOOSE i \in dots : \A j \in dots : i <= j
              current == Get(obj, SubSeq(key, 1, d - 1))
              rest == SubSeq(key, d + 1, Len(key))
          IN IF /\ current.type = "object"
                /\ "entries" \in DOMAIN current
                /\ rest \in DOMAIN current.entries
                /\ current.entries[rest].type = "string"
             THEN current.entries[rest]
             ELSE Undefined

getNestedValue(obj, key) ==
  LET value == Get(obj, key)
  IN IF value.type = "string" THEN value ELSE Undefined

-----------------------------------------------------------------------------
(* plural: extractPluralKeys *)

\* mutant: only the categories of the 0/1/other scheme are probed
ZERO_ONE_OTHER_CATEGORIES == <<SUF_zero, SUF_one, SUF_other>>

INTL_PLURAL_CATEGORIES ==
  <<SUF_zero, SUF_one, SUF_two, SUF_few, SUF_many, SUF_other>>

RECURSIVE ExtractLoop(_, _, _)
ExtractLoop(namespaceData, baseKey, i) ==
  IF i > Len(INTL_PLURAL_CATEGORIES) THEN << >>
  ELSE LET keyWithSuffix == baseKey \o INTL_PLURAL_CATEGORIES[i]
           value == getNestedValue(namespaceData, keyWithSuffix)
       IN (IF value # Undefined THEN <<keyWithSuffix>> ELSE << >>)
            \o ExtractLoop(namespaceData, baseKey, i + 1)

extractPluralKeys(allMessages, namespace, baseKey) ==
  LET namespaceData == Get(allMessages, namespace)
  IN IF namespaceData = Undefined THEN << >>
     ELSE ExtractLoop(namespaceData.entries, baseKey, 1)

-----------------------------------------------------------------------------
(* index: pickMessages *)

RECURSIVE PickPluralLoop(_, _, _, _, _)
PickPluralLoop(translations, namespaceData, namespace, pluralKeys, i) ==
  IF i > Len(pluralKeys) THEN translations
  ELSE LET pluralKey == pluralKeys[i]
           value == getNestedValue(namespaceData, pluralKey)
           next == IF value # Undefined
                   THEN Put(translations, namespace \o DOT \o pluralKey, value.str)
                   ELSE translations
       IN PickPluralLoop(next, namespaceData, namespace, pluralKeys, i + 1)

\* mutant: plural siblings are looked for only when the literal key is absent
RECURSIVE PickKeyLoopElse(_, _, _, _, _)
PickKeyLoopElse(translations, allMessages, namespace, keys, i) ==
  IF i > Len(keys) THEN translations
  ELSE LET key == keys[i]
           namespaceData == Get(allMessages, namespace).entries
           value == getNestedValue(namespaceData, key)
           pluralKeys == extractPluralKeys(allMessages, namespace, key)
           next == IF value # Undefined
                   THEN Put(translations, namespace \o DOT \o key, value.str)
                   ELSE PickPluralLoop(translations, namespaceData, namespace,
                                       pluralKeys, 1)
       IN PickKeyLoopElse(next, allMessages, namespace, keys, i + 1)

RECURSIVE PickKeyLoop(_, _, _, _, _)
PickKeyLoop(translations, allMessages, namespace, keys, i) ==
  IF i > Len(keys) THEN translations
  ELSE LET key == keys[i]
           namespaceData == Get(allMessages, namespace).entries
           value == getNestedValue(namespaceData, key)
           direct == IF value # Undefined
                     THEN Put(translations, namespace \o DOT \o key, value.str)
                     ELSE translations
           pluralKeys == extractPluralKeys(allMessages, namespace, key)
           next == PickPluralLoop(direct, namespaceData, namespace, pluralKeys, 1)
       IN PickKeyLoop(next, allMessages, namespace, keys, i + 1)

RECURSIVE PickRequirementLoop(_, _, _, _)
PickRequirementLoop(translations, allMessages, requirementsArray, i) ==
  IF i > Len(requirementsArray) THEN translations
  ELSE LET requirement == requirementsArray[i]
           namespaceData == Get(allMessages, requirement.namespace)
           next == IF namespaceData = Undefined THEN translations
                   ELSE PickKeyLoop(translations, allMessages,
                                    requirement.namespace, requirement.keys, 1)
       IN PickRequirementLoop(next, allMessages, requirementsArray, i + 1)

\* requirements is either an array of requirements or a single requirement
RequirementsArray(reqs) ==
  IF reqs.isArray THEN reqs.items ELSE <<reqs.item>>

pickMessages(allMessages, reqs, locale) ==
  [locale |-> locale,
   translations |-> PickRequirementLoop(EmptyMap, allMessages, RequirementsArray(reqs), 1)]

\* mutant: an absent locale falls back to the first locale of the catalog
pickMessagesOfLocaleFallback(localeMessages, reqs, locale) ==
  IF locale \in DOMAIN localeMessages
  THEN pickMessages(localeMessages[locale], reqs, locale)
  ELSE pickMessages(localeMessages["en"], reqs, locale)

\* the locale-grouped entry point: the translations of the requested locale
\* are resolved; an absent locale gives an empty resolved set
pickMessagesOfLocale(localeMessages, reqs, locale) ==
  IF locale \in DOMAIN localeMessages
  THEN pickMessages(localeMessages[locale], reqs, locale)
  ELSE [locale |-> locale, translations |-> EmptyMap]

-----------------------------------------------------------------------------
(* JavaScript built-ins used by the translator *)

Abs(n) == IF n < 0 THEN 0 - n ELSE n

Digit(d) == <<"0", "1", "2", "3", "4", "5", "6", "7", "8", "9">>[d + 1]

RECURSIVE NatToString(_)
NatToString(n) ==
  IF n < 10 THEN <<Digit(n)>> ELSE NatToString(n \div 10) \o <<Digit(n % 10)>>

\* String(value) of a string or of an integer number
JSString(value) ==
  IF value.type = "string" THEN value.str
  ELSE IF value.num < 0 THEN <<"-">> \o NatToString(Abs(value.num))
  ELSE NatToString(value.num)

\* new Intl.PluralRules(locale).select(count), CLDR cardinal rules, integers
PluralRulesSelect(locale, count) ==
  LET n == Abs(count)
  IN CASE locale = "en" -> IF n = 1 THEN SUF_one ELSE SUF_other
       [] locale = "fr" -> IF n \in {0, 1} THEN SUF_one ELSE SUF_other
       [] locale = "ar" ->
            IF n = 0 THEN SUF_zero
            ELSE IF n = 1 THEN SUF_one
            ELSE IF n = 2 THEN SUF_two
            ELSE IF n % 100 \in 3..10 THEN SUF_few
            ELSE IF n % 100 \in 11..99 THEN SUF_many
            ELSE SUF_other
       [] OTHER -> SUF_other

\* s.startsWith(pat, i) with i a 1-based position
MatchAt(s, pat, i) ==
  /\ i + Len(pat) - 1 <= Len(s)
  /\ \A j \in 1..Len(pat) : s[i + j - 1] = pat[j]

\* the character U+0060
GRAVE == "grave"

\* GetSubstitution for a string pattern (no captures): $$, $&, $GRAVE, $'
RECURSIVE GetSubstitution(_, _, _, _, _)
GetSubstitution(matched, str, position, replacement, i) ==
  IF i > Len(replacement) THEN << >>
  ELSE IF replacement[i] = "$" /\ i < Len(replacement)
            /\ replacement[i + 1] \in {"$", "&", GRAVE, "'"}
       THEN (CASE replacement[i + 1] = "$" -> <<"$">>
               [] replacement[i + 1] = "&" -> matched
               [] replacement[i + 1] = GRAVE -> SubSeq(str, 1, position - 1)
               [] OTHER -> SubSeq(str, position + Len(matched), Len(str)))
              \o GetSubstitution(matched, str, position, replacement, i + 2)
       ELSE <<replacement[i]>>
              \o GetSubstitution(matched, str, position, replacement, i + 1)

\* String.prototype.replaceAll(searchString, replaceValue), non-empty search
RECURSIVE ReplaceAllFrom(_, _, _, _)
ReplaceAllFrom(str, pat, replacement, i) ==
  IF i > Len(str) THEN << >>
  ELSE IF MatchAt(str, pat, i)
       THEN GetSubstitution(pat, str, i, replacement, 1)
              \o ReplaceAllFrom(str, pat, replacement, i + Len(pat))
       ELSE <<str[i]>> \o ReplaceAllFrom(str, pat, replacement, i + 1)

ReplaceAll(str, pat, replacement) == ReplaceAllFrom(str, pat, replacement, 1)

-----------------------------------------------------------------------------
(* utils: replacePlaceholders.  values is the list Object.entries(values) *)

\* mutant: the key is searched without its braces
RECURSIVE ReplaceLoopBareKey(_, _, _)
ReplaceLoopBareKey(res, entries, i) ==
  IF i > Len(entries) THEN res
  ELSE ReplaceLoopBareKey(ReplaceAll(res, entries[i].key, JSString(entries[i].value)),
                          entries, i + 1)

RECURSIVE ReplaceLoop(_, _, _)
ReplaceLoop(res, entries, i) ==
  IF i > Len(entries) THEN res
  ELSE LET placeholder == OPEN \o entries[i].key \o CLOSE
       IN ReplaceLoop(ReplaceAll(res, placeholder, JSString(entries[i].value)),
                      entries, i + 1)

replacePlaceholders(message, values) == ReplaceLoop(message, values.entries, 1)

-----------------------------------------------------------------------------
(* plural: selectPluralKey, resolvePluralMessage (Intl.PluralRules) *)

\* mutant: the category of the count is ignored
selectPluralKeyAlwaysOther(baseKey, count, locale) ==
  baseKey \o SUF_other

selectPluralKey(baseKey, count, locale) ==
  baseKey \o PluralRulesSelect(locale, count)

\* messages[fullKey] on a Record<string, string>
Message(msgs, fullKey) ==
  IF fullKey \in DOMAIN msgs THEN StrVal(msgs[fullKey]) ELSE Undefined

\* mutant: no fallback to _other when the selected category is absent
resolvePluralMessageNoFallback(msgs, namespace, baseKey, count, locale) ==
  LET selectedKey == selectPluralKey(baseKey, count, locale)
      fullKey == namespace \o DOT \o selectedKey
  IN IF fullKey \in DOMAIN msgs THEN Message(msgs, fullKey) ELSE Undefined

\* mutant: the fallback key is _one instead of _other
resolvePluralMessageFallbackOne(msgs, namespace, baseKey, count, locale) ==
  LET selectedKey == selectPluralKey(baseKey, count, locale)
      fullKey == namespace \o DOT \o selectedKey
      oneKey == namespace \o DOT \o baseKey \o SUF_one
  IN IF fullKey \in DOMAIN msgs THEN Message(msgs, fullKey)
     ELSE IF oneKey \in DOMAIN msgs THEN Message(msgs, oneKey)
     ELSE Undefined

resolvePluralMessage(msgs, namespace, baseKey, count, locale) ==
  LET selectedKey == selectPluralKey(baseKey, count, locale)
      fullKey == namespace \o DOT \o selectedKey
      otherKey == namespace \o DOT \o baseKey \o SUF_other
  IN IF fullKey \in DOMAIN msgs THEN Message(msgs, fullKey)
     ELSE IF otherKey \in DOMAIN msgs THEN Message(msgs, otherKey)
     ELSE Undefined

\* values.count when values has a numeric count, else undefined
HasNumericCount(values) ==
  /\ values # Undefined
  /\ \E i \in 1..Len(values.entries) :
        values.entries[i].key = S_count /\ values.entries[i].value.type = "number"

CountOf(values) ==
  LET i == CHOOSE i \in 1..Len(values.entries) : values.entries[i].key = S_count
  IN values.entries[i].value.num

-----------------------------------------------------------------------------
(* index: createTranslator; the returned function applied to (key, values) *)

\* mutant: the literal key is tried before the _other fallback
createTranslatorLiteralFirst(msgs, requirement, key, values) ==
  LET namespace == requirement.namespace
      locale == msgs.locale
      plural == IF HasNumericCount(values)
                THEN resolvePluralMessageNoFallback(msgs.translations, namespace, key,
                                                    CountOf(values), locale)
                ELSE Undefined
      literal == IF plural = Undefined
                 THEN Message(msgs.translations, namespace \o DOT \o key)
                 ELSE plural
      message == IF literal = Undefined /\ HasNumericCount(values)
                 THEN Message(msgs.translations, namespace \o DOT \o key \o SUF_other)
                 ELSE literal
  IN IF message = Undefined THEN StrVal(key)
     ELSE IF values # Undefined THEN StrVal(replacePlaceholders(message.str, values))
     ELSE message

\* mutant: a miss returns the namespaced key with the values substituted
createTranslatorFullKeyOnMiss(msgs, requirement, key, values) ==
  LET namespace == requirement.namespace
      locale == msgs.locale
      plural == IF HasNumericCount(values)
                THEN resolvePluralMessage(msgs.translations, namespace, key,
                                          CountOf(values), locale)
                ELSE Undefined
      message == IF plural = Undefined
                 THEN Message(msgs.translations, namespace \o DOT \o key)
                 ELSE plural
      found == IF message = Undefined THEN StrVal(namespace \o DOT \o key) ELSE message
  IN IF values # Undefined THEN StrVal(replacePlaceholders(found.str, values))
     ELSE found

createTranslator(msgs, requirement, key, values) ==
  LET namespace == requirement.namespace
      locale == msgs.locale
      plural == IF HasNumericCount(values)
                THEN resolvePluralMessage(msgs.translations, namespace, key,
                                          CountOf(values), locale)
                ELSE Undefined
      message == IF plural = Undefined
                 THEN Message(msgs.translations, namespace \o DOT \o key)
                 ELSE plural
  IN IF message = Undefined THEN StrVal(key)
     ELSE IF values # Undefined THEN StrVal(replacePlaceholders(message.str, values))
     ELSE message

-----------------------------------------------------------------------------
(* plural, index: the earlier 0/1/other scheme without Intl.PluralRules *)

selectPluralKeyLegacy(baseKey, count) ==
  IF count = 0 THEN baseKey \o SUF_zero
  ELSE IF count = 1 THEN baseKey \o SUF_one
  ELSE baseKey \o SUF_other

\* mutant: counts 0 and 1 both fall back to _other
resolvePluralMessageLegacyZeroOrOne(msgs, namespace, baseKey, count) ==
  LET selectedKey == selectPluralKeyLegacy(baseKey, count)
      fullKey == namespace \o DOT \o selectedKey
      otherKey == namespace \o DOT \o baseKey \o SUF_other
  IN IF fullKey \in DOMAIN msgs THEN Message(msgs, fullKey)
     ELSE IF count \in {0, 1} /\ otherKey \in DOMAIN msgs THEN Message(msgs, otherKey)
     ELSE Undefined

resolvePluralMessageLegacy(msgs, namespace, baseKey, count) ==
  LET selectedKey == selectPluralKeyLegacy(baseKey, count)
      fullKey == namespace \o DOT \o selectedKey
      otherKey == namespace \o DOT \o baseKey \o SUF_other
  IN IF fullKey \in DOMAIN msgs THEN Message(msgs, fullKey)
     ELSE IF count = 0 /\ otherKey \in DOMAIN msgs THEN Message(msgs, otherKey)
     ELSE Undefined

createTranslatorLegacy(msgs, requirement, key, values) ==
  LET namespace == requirement.namespace
      plural == IF HasNumericCount(values)
                THEN resolvePluralMessageLegacy(msgs, namespace, key, CountOf(values))
                ELSE Undefined
      message == IF plural = Undefined
                 THEN Message(msgs, namespace \o DOT \o key)
                 ELSE plural
  IN IF message = Undefined THEN StrVal(key)
     ELSE IF values # Undefined THEN StrVal(replacePlaceholders(message.str, values))
     ELSE message

-----------------------------------------------------------------------------
(* Inputs *)

MaxCount == 5
MaxRequirements == 2
MaxChunks == 2

Counts == (-1)..MaxCount

\* locales of the catalog; "fr" is a locale the catalog does not have
CatalogLocales == {"en", "ja", "ar"}
Locales == CatalogLocales \cup {"fr"}

LocaleMark(locale) ==
  CASE locale = "en" -> <<"E">> [] locale = "ja" -> <<"J">> [] OTHER -> <<"A">>

PluralFamily == {S_k \o SUF_zero, S_k \o SUF_one, S_k \o SUF_few, S_k \o SUF_other}

\* the text of an entry: the locale's mark, then a text telling the keys apart
Text(locale, key) ==
  LocaleMark(locale) \o
    (CASE key = S_k -> <<"L">>
       [] key = S_k \o SUF_zero -> <<"Z">>
       [] key = S_k \o SUF_one -> <<"O">>
       [] key = S_k \o SUF_few -> <<"F">>
       [] key = S_k \o SUF_other -> OPEN \o S_count \o CLOSE \o <<"x">>
       [] OTHER -> OPEN \o S_name \o CLOSE \o OPEN \o S_other2 \o CLOSE)

Entries(locale, present, objectKeys) ==
  [key \in present |->
     IF key \in objectKeys THEN ObjVal ELSE StrVal(Text(locale, key))]

\* one locale's translation file: namespace n with the chosen entries,
\* namespace m with the dotted key only
File(locale, present, objectKeys) ==
  [ns \in {S_n, S_m} |->
     [type |-> "object",
      entries |-> IF ns = S_n THEN Entries(locale, present \cup {S_pq}, objectKeys)
                  ELSE Entries(locale, {S_pq}, {})]]

Catalogs ==
  {[locale \in CatalogLocales |-> File(locale, present, objectKeys)] :
     present \in SUBSET (PluralFamily \cup {S_k}),
     objectKeys \in {{}, {S_k}, {S_k \o SUF_other}}}

RequirementPool ==
  {[namespace |-> S_n, keys |-> <<S_k>>],
   [namespace |-> S_n, keys |-> <<S_pq, S_x>>],
   [namespace |-> S_m, keys |-> <<S_k, S_pq>>],
   [namespace |-> S_x, keys |-> <<S_k>>]}

RECURSIVE SeqsUpTo(_, _)
SeqsUpTo(S, n) ==
  IF n = 0 THEN {<< >>}
  ELSE LET shorter == SeqsUpTo(S, n - 1)
       IN shorter \cup {Append(q, e) : q \in shorter, e \in S}

RequirementInputs ==
  {[isArray |-> TRUE, items |-> items] :
     items \in SeqsUpTo(RequirementPool, MaxRequirements)}
  \cup {[isArray |-> FALSE, item |-> item] : item \in RequirementPool}

Values(entries) == [type |-> "object", entries |-> entries]
Entry(key, value) == [key |-> key, value |-> value]

TranslatorValues ==
  {Undefined, Values(<< >>)}
  \cup {Values(<<Entry(S_count, NumVal(c))>>) : c \in Counts}
  \cup {Values(<<Entry(S_count, StrVal(<<"1">>))>>),
        Values(<<Entry(S_name, StrVal(S_x)), Entry(S_count, NumVal(1))>>)}

\* a key of the page and a key no catalog has, spelt like a placeholder
S_missing == OPEN \o S_name \o CLOSE

TranslatorKeys == {S_k, S_missing}
TranslatorNamespaces == {S_n, S_x}

\* the requirement of the page whose translator is called
PageRequirement == [namespace |-> S_n, keys |-> <<S_k, S_pq>>]

-----------------------------------------------------------------------------
(* The state machine: a page picks its messages, then translates *)

NoCall == [fn |-> "none"]
NoMessages == [locale |-> "", translations |-> EmptyMap]

Init ==
  /\ catalog \in Catalogs
  /\ requirements = [isArray |-> FALSE, item |-> PageRequirement]
  /\ messages = NoMessages
  /\ call = NoCall
  /\ result = Undefined
  /\ op = "init"

\* mutant: the entries of the picked locale are moved out of the catalog
PickMessagesInPlace(locale) ==
  /\ messages' = pickMessagesOfLocale(catalog, requirements, locale)
  /\ call' = [fn |-> "pickMessages", locale |-> locale]
  /\ result' = Undefined
  /\ op' = "pick"
  /\ catalog' = [l \in DOMAIN catalog |->
                   IF l = locale THEN File(l, {}, {}) ELSE catalog[l]]
  /\ UNCHANGED requirements

PickMessages(locale) ==
  /\ messages' = pickMessagesOfLocale(catalog, requirements, locale)
  /\ call' = [fn |-> "pickMessages", locale |-> locale]
  /\ result' = Undefined
  /\ op' = "pick"
  /\ UNCHANGED <<catalog, requirements>>

\* the translator is a function of messages, key and values: one call after
\* each pick stands for every call made with those messages
Translate(namespace, key, values) ==
  /\ op = "pick"
  /\ result' = createTranslator(messages, [namespace |-> namespace], key, values)
  /\ call' = [fn |-> "t", namespace |-> namespace, key |-> key, values |-> values]
  /\ op' = "translate"
  /\ UNCHANGED <<catalog, requirements, messages>>

TranslateLegacy(namespace, key, values) ==
  /\ op = "pick"
  /\ result' = createTranslatorLegacy(messages.translations,
                                      [namespace |-> namespace], key, values)
  /\ call' = [fn |-> "t", namespace |-> namespace, key |-> key, values |-> values]
  /\ op' = "translateLegacy"
  /\ UNCHANGED <<catalog, requirements, messages>>

Next ==
  \/ \E locale \in Locales : PickMessages(locale)
  \/ \E namespace \in TranslatorNamespaces, key \in TranslatorKeys,
        values \in TranslatorValues : Translate(namespace, key, values)
  \/ \E namespace \in TranslatorNamespaces, key \in TranslatorKeys,
        values \in TranslatorValues : TranslateLegacy(namespace, key, values)

Spec == Init /\ [][Next]_vars

-----------------------------------------------------------------------------
(* pickMessages alone, over every catalog and requirement input *)

InitPick ==
  /\ catalog \in Catalogs
  /\ requirements \in RequirementInputs
  /\ messages = NoMessages
  /\ call = NoCall
  /\ result = Undefined
  /\ op = "init"

NextPick == \E locale \in Locales : PickMessages(locale)

SpecPick == InitPick /\ [][NextPick]_vars

-----------------------------------------------------------------------------
(* replacePlaceholders alone, over templates and value maps *)

Chunks ==
  {OPEN \o S_name \o CLOSE, OPEN \o S_other2 \o CLOSE, OPEN \o S_count \o CLOSE,
   <<"x">>, <<"{">>}

RECURSIVE Flatten(_)
Flatten(chunks) ==
  IF chunks = << >> THEN << >> ELSE Head(chunks) \o Flatten(Tail(chunks))

Templates == {Flatten(chunks) : chunks \in SeqsUpTo(Chunks, MaxChunks)}

\* values for the placeholder a: plain text, a number, text spelt like the
\* placeholder b, and text with a dollar sign
TextsOfA ==
  {StrVal(<<"y">>), NumVal(10), NumVal(-1),
   StrVal(OPEN \o S_other2 \o CLOSE), StrVal(<<"$", "&">>), StrVal(<<"$", "$">>),
   StrVal(<<"$", "'">>), StrVal(<<"$", GRAVE>>)}

SubstituterValues ==
  {Values(<< >>), Values(<<Entry(S_other2, StrVal(<<"z">>))>>)}
  \cup {Values(<<Entry(S_name, v)>>) : v \in TextsOfA}
  \cup {Values(<<Entry(S_name, v), Entry(S_other2, StrVal(<<"z">>))>>) : v \in TextsOfA}
  \cup {Values(<<Entry(S_other2, StrVal(<<"z">>)), Entry(S_name, v)>>) : v \in TextsOfA}

\* the arguments of the call are drawn here, the action applies the function
InitSubst ==
  /\ catalog = [locale \in CatalogLocales |-> File(locale, {}, {})]
  /\ requirements = [isArray |-> FALSE, item |-> PageRequirement]
  /\ messages = NoMessages
  /\ call \in {[fn |-> "replacePlaceholders", template |-> template, values |-> values] :
                 template \in Templates, values \in SubstituterValues}
  /\ result = Undefined
  /\ op = "init"

Substitute ==
  /\ op = "init"
  /\ result' = StrVal(replacePlaceholders(call.template, call.values))
  /\ op' = "substitute"
  /\ UNCHANGED <<catalog, requirements, messages, call>>

NextSubst == Substitute

SpecSubst == InitSubst /\ [][NextSubst]_vars

-----------------------------------------------------------------------------
(* Properties of pickMessages *)

PickedLocale == call.locale
Picked == op = "pick" /\ PickedLocale \in DOMAIN catalog
Translations == messages.translations
AllSuffixes == {INTL_PLURAL_CATEGORIES[i] : i \in 1..Len(INTL_PLURAL_CATEGORIES)}

\* the string entry (namespace, key) of the picked locale, if there is one
IsStringEntry(namespace, key) ==
  /\ namespace \in DOMAIN catalog[PickedLocale]
  /\ key \in DOMAIN catalog[PickedLocale][namespace].entries
  /\ catalog[PickedLocale][namespace].entries[key].type = "string"

EntryText(namespace, key) == catalog[PickedLocale][namespace].entries[key].str

\* C1: every entry of the resolved set is "namespace.key" of a string entry
\* of the picked locale's catalog and carries exactly that entry's text; for a
\* locale the catalog does not have nothing is resolved.
C1_NothingSynthesized ==
  op = "pick" =>
    \A fullKey \in DOMAIN Translations :
      /\ PickedLocale \in DOMAIN catalog
      /\ \E namespace \in DOMAIN catalog[PickedLocale] :
           \E key \in DOMAIN catalog[PickedLocale][namespace].entries :
             /\ fullKey = namespace \o DOT \o key
             /\ IsStringEntry(namespace, key)
             /\ Translations[fullKey] = EntryText(namespace, key)

\* C1 witness: a pick resolved a literal and a discovered plural sibling and
\* left out a sibling whose entry is not a string
C1_Witness ==
  /\ Picked
  /\ S_n \o DOT \o S_k \in DOMAIN Translations
  /\ S_n \o DOT \o S_k \o SUF_one \in DOMAIN Translations
  /\ S_k \o SUF_other \in DOMAIN catalog[PickedLocale][S_n].entries
  /\ catalog[PickedLocale][S_n].entries[S_k \o SUF_other].type = "object"
  /\ S_n \o DOT \o S_k \o SUF_other \notin DOMAIN Translations

\* C8: for every requirement (ns, keys) and declared key k, "ns.k" is emitted
\* when entry k is a string and, whether or not it is, "ns.k_c" is emitted for
\* every plural suffix c whose entry k_c is a string.
C8_LiteralAndSiblings ==
  Picked =>
    \A r \in 1..Len(RequirementsArray(requirements)) :
      LET requirement == RequirementsArray(requirements)[r]
          namespace == requirement.namespace
      IN \A j \in 1..Len(requirement.keys) :
           LET key == requirement.keys[j]
           IN /\ IsStringEntry(namespace, key) =>
                   /\ namespace \o DOT \o key \in DOMAIN Translations
                   /\ Translations[namespace \o DOT \o key] = EntryText(namespace, key)
              /\ \A suffix \in AllSuffixes :
                   IsStringEntry(namespace, key \o suffix) =>
                     /\ namespace \o DOT \o key \o suffix \in DOMAIN Translations
                     /\ Translations[namespace \o DOT \o key \o suffix]
                          = EntryText(namespace, key \o suffix)

\* C8 witness: the literal k and the siblings k_one, k_other are all strings
\* of a required key and all three are emitted
C8_Witness ==
  /\ Picked
  /\ \E r \in 1..Len(RequirementsArray(requirements)) :
        /\ RequirementsArray(requirements)[r].namespace = S_n
        /\ \E j \in 1..Len(RequirementsArray(requirements)[r].keys) :
              RequirementsArray(requirements)[r].keys[j] = S_k
  /\ IsStringEntry(S_n, S_k)
  /\ IsStringEntry(S_n, S_k \o SUF_one)
  /\ IsStringEntry(S_n, S_k \o SUF_other)
  /\ {S_n \o DOT \o S_k, S_n \o DOT \o S_k \o SUF_one,
      S_n \o DOT \o S_k \o SUF_other} \subseteq DOMAIN Translations

\* C9: picking for a locale the catalog has no entry for returns the resolved
\* set tagged with that locale and with no translations, for any requirements.
C9_AbsentLocaleEmpty ==
  (op = "pick" /\ PickedLocale \notin DOMAIN catalog) =>
    /\ messages.locale = PickedLocale
    /\ DOMAIN messages.translations = {}

\* C9 witness: a pick for the absent locale "fr" with a requirement whose
\* namespace and key exist in every locale of the catalog
C9_Witness ==
  /\ op = "pick"
  /\ PickedLocale = "fr"
  /\ "fr" \notin DOMAIN catalog
  /\ \E r \in 1..Len(RequirementsArray(requirements)) :
        RequirementsArray(requirements)[r].namespace = S_m
  /\ messages.locale = "fr"

-----------------------------------------------------------------------------
(* Properties of the translator *)

\* the template with every placeholder of a key of values replaced, in one
\* left-to-right pass, by the string form of the value; the rest verbatim
ValueOf(values, key) ==
  LET i == CHOOSE i \in 1..Len(values.entries) : values.entries[i].key = key
  IN values.entries[i].value

KeysAt(template, values, i) ==
  {values.entries[e].key : e \in
     {e \in 1..Len(values.entries) :
        MatchAt(template, OPEN \o values.entries[e].key \o CLOSE, i)}}

RECURSIVE SubstitutedFrom(_, _, _)
SubstitutedFrom(template, values, i) ==
  IF i > Len(template) THEN << >>
  ELSE IF KeysAt(template, values, i) # {}
       THEN LET key == CHOOSE key \in KeysAt(template, values, i) : TRUE
            IN JSString(ValueOf(values, key))
                 \o SubstitutedFrom(template, values, i + Len(key) + 4)
       ELSE <<template[i]>> \o SubstitutedFrom(template, values, i + 1)

Substituted(template, values) ==
  IF values = Undefined THEN template ELSE SubstitutedFrom(template, values, 1)

Translated == op = "translate"
Counted == Translated /\ HasNumericCount(call.values)
FullKey(suffix) == call.namespace \o DOT \o call.key \o suffix
Has(suffix) == FullKey(suffix) \in DOMAIN Translations
Literal == << >>
Classified == PluralRulesSelect(messages.locale, CountOf(call.values))
Rendered(suffix) == StrVal(Substituted(Translations[FullKey(suffix)], call.values))

SupportedLocales == {"en", "ja"}

C3_WitnessOther ==
  /\ Counted
  /\ messages.locale = "en"
  /\ CountOf(call.values) = 2
  /\ Has(SUF_one)
  /\ Has(SUF_other)
  /\ result = StrVal(<<"E", "2", "x">>)

\* C4 as claimed: when the classified sibling is absent and both the literal
\* "ns.key" and "ns.key_other" are resolved, the literal text is returned.
C4_LiteralBeforeOther ==
  (Counted /\ ~Has(Classified) /\ Has(Literal) /\ Has(SUF_other))
    => result = Rendered(Literal)

\* C4 amended: the order is classified sibling, then "ns.key_other", then the
\* literal "ns.key", then the bare key; with the classified sibling absent and
\* both the literal and _other resolved, the _other text is returned.
C4_OtherBeforeLiteral ==
  Counted =>
    result = IF Has(Classified) THEN Rendered(Classified)
             ELSE IF Has(SUF_other) THEN Rendered(SUF_other)
             ELSE IF Has(Literal) THEN Rendered(Literal)
             ELSE StrVal(call.key)

\* C4 witness: English, count 1, no k_one, literal k and k_other resolved:
\* the _other text "E1x" is returned, not the literal "EL"
C4_Witness ==
  /\ Counted
  /\ messages.locale = "en"
  /\ CountOf(call.values) = 1
  /\ call.key = S_k
  /\ ~Has(SUF_one)
  /\ Has(Literal)
  /\ Has(SUF_other)
  /\ result = StrVal(<<"E", "1", "x">>)

\* C5 as claimed: with a numeric count, whenever any plural sibling of the key
\* is resolved the literal text is not what is returned.
C5_LiteralOnlyWithoutFamily ==
  (Counted /\ Has(Literal) /\ \E suffix \in AllSuffixes : Has(suffix))
    => result # Rendered(Literal)

\* C5 amended: with a numeric count the literal text is returned only if
\* neither the classified sibling nor "ns.key_other" is resolved; whenever one
\* of the two is, the text of a plural sibling is returned.
C5_LiteralOnlyWithoutClassifiedAndOther ==
  (Counted /\ Has(Literal)) =>
    /\ (result = Rendered(Literal)) <=> (~Has(Classified) /\ ~Has(SUF_other))
    /\ (Has(Classified) \/ Has(SUF_other)) =>
         \E suffix \in AllSuffixes : Has(suffix) /\ result = Rendered(suffix)

\* C5 witness: the literal is returned although a plural sibling is resolved
\* (English, count 3, k and k_one only)
C5_Witness ==
  /\ Counted
  /\ messages.locale = "en"
  /\ CountOf(call.values) = 3
  /\ call.key = S_k
  /\ Has(Literal)
  /\ Has(SUF_one)
  /\ ~Has(SUF_other)
  /\ result = StrVal(<<"E", "L">>)

C6_WitnessOther ==
  /\ op = "translateLegacy"
  /\ HasNumericCount(call.values)
  /\ CountOf(call.values) \in {0, 5}
  /\ Has(SUF_other)
  /\ ~Has(Literal)
  /\ \A suffix \in AllSuffixes \ {SUF_other} : ~Has(suffix)
  /\ result \in {StrVal(<<"E", "0", "x">>), StrVal(<<"E", "5", "x">>)}

\* no lookup of the call finds a message
Missed ==
  /\ ~Has(Literal)
  /\ HasNumericCount(call.values) => (~Has(Classified) /\ ~Has(SUF_other))

\* C7: when no lookup finds a message the translator returns exactly the key
\* it was given: no namespace prefix, no placeholder substitution.
C7_MissReturnsKey ==
  (Translated /\ Missed) => result = StrVal(call.key)

\* C7 witness: the unknown key "{{a}}" called with a value for a
C7_Witness ==
  /\ Translated
  /\ Missed
  /\ call.key = S_missing
  /\ call.values # Undefined
  /\ \E i \in 1..Len(call.values.entries) : call.values.entries[i].key = S_name
  /\ result = StrVal(S_missing)

-----------------------------------------------------------------------------
(* Properties of replacePlaceholders *)

\* C10: the substituter returns the template with every occurrence of each
\* placeholder whose name is a key of values replaced by the string form of
\* that value, and every other placeholder left verbatim.
C10_EveryPlaceholderReplacedByItsValue ==
  op = "substitute" => result = StrVal(Substituted(call.template, call.values))

-----------------------------------------------------------------------------
(* Character classes of the regular expressions *)

Digits == {"0", "1", "2", "3", "4", "5", "6", "7", "8", "9"}

LowerLetters ==
  {"a", "b", "c", "d", "e", "f", "g", "h", "i", "j", "k", "l", "m",
   "n", "o", "p", "q", "r", "s", "t", "u", "v", "w", "x", "y", "z"}

UpperLetters ==
  {"A", "B", "C", "D", "E", "F", "G", "H", "I", "J", "K", "L", "M",
   "N", "O", "P", "Q", "R", "S", "T", "U", "V", "W", "X", "Y", "Z"}

\* [a-zA-Z]
Letters == LowerLetters \cup UpperLetters

\* \w
WordChars == Letters \cup Digits \cup {"_"}

\* the last position of the longest run of characters of class that starts
\* at i (i - 1 when the run is empty): a greedy class+ or class*
RECURSIVE RunEnd(_, _, _)
RunEnd(s, class, i) ==
  IF i <= Len(s) /\ s[i] \in class THEN RunEnd(s, class, i + 1) ELSE i - 1

-----------------------------------------------------------------------------
(* utils: extractPlaceholders and the strict replacePlaceholders *)

\* message.matchAll(/\{\{(\w+)\}\}/g), the captures in order
RECURSIVE ExtractFrom(_, _)
ExtractFrom(message, i) ==
  IF i > Len(message) THEN << >>
  ELSE LET e == RunEnd(message, WordChars, i + 2)
       IN IF MatchAt(message, OPEN, i) /\ e >= i + 2 /\ MatchAt(message, CLOSE, e + 1)
          THEN <<SubSeq(message, i + 2, e)>> \o ExtractFrom(message, e + 3)
          ELSE ExtractFrom(message, i + 1)

extractPlaceholders(message) == ExtractFrom(message, 1)

\* placeholder in values
HasKey(values, placeholder) ==
  \E i \in 1..Len(values.entries) : values.entries[i].key = placeholder

\* a thrown InvalidPlaceholderError
InvalidPlaceholderError(missingPlaceholders, template) ==
  [type |-> "throw", name |-> "InvalidPlaceholderError",
   missingPlaceholders |-> missingPlaceholders, template |-> template]

\* mutant: only the first missing name is reported
replacePlaceholdersStrictFirstMissing(message, values) ==
  LET requiredPlaceholders == extractPlaceholders(message)
      missingPlaceholders ==
        SelectSeq(requiredPlaceholders, LAMBDA p : ~HasKey(values, p))
  IN IF Len(missingPlaceholders) > 0
     THEN InvalidPlaceholderError(<<Head(missingPlaceholders)>>, message)
     ELSE StrVal(ReplaceLoop(message, values.entries, 1))

replacePlaceholdersStrict(message, values) ==
  LET requiredPlaceholders == extractPlaceholders(message)
      missingPlaceholders ==
        SelectSeq(requiredPlaceholders, LAMBDA p : ~HasKey(values, p))
  IN IF Len(missingPlaceholders) > 0
     THEN InvalidPlaceholderError(missingPlaceholders, message)
     ELSE StrVal(ReplaceLoop(message, values.entries, 1))

\* templates of the strict substituter: those of the lenient one and a
\* brace pair around text that is not an identifier
S_a_b == <<"a", "-", "b">>

StrictChunks == Chunks \cup {OPEN \o S_a_b \o CLOSE}

StrictTemplates == {Flatten(chunks) : chunks \in SeqsUpTo(StrictChunks, MaxChunks)}

InitStrict ==
  /\ catalog = [locale \in CatalogLocales |-> File(locale, {}, {})]
  /\ requirements = [isArray |-> FALSE, item |-> PageRequirement]
  /\ messages = NoMessages
  /\ call \in {[fn |-> "replacePlaceholdersStrict", template |-> template,
                values |-> values] :
                 template \in StrictTemplates, values \in SubstituterValues}
  /\ result = Undefined
  /\ op = "init"

SubstituteStrict ==
  /\ op = "init"
  /\ result' = replacePlaceholdersStrict(call.template, call.values)
  /\ op' = "substituteStrict"
  /\ UNCHANGED <<catalog, requirements, messages, call>>

NextStrict == SubstituteStrict

SpecStrict == InitStrict /\ [][NextStrict]_vars

-----------------------------------------------------------------------------
(* Properties of the strict replacePlaceholders *)

\* a placeholder with a name of n word characters starts at position i
PlaceholderAt(template, i, n) ==
  /\ n >= 1
  /\ MatchAt(template, OPEN, i)
  /\ i + 1 + n <= Len(template)
  /\ \A j \in (i + 2)..(i + 1 + n) : template[j] \in WordChars
  /\ MatchAt(template, CLOSE, i + 2 + n)

\* the names of the placeholders starting at i that values has no key for
MissingAt(template, values, i) ==
  {SubSeq(template, i + 2, i + 1 + n) : n \in
     {n \in 1..Len(template) :
        /\ PlaceholderAt(template, i, n)
        /\ ~HasKey(values, SubSeq(template, i + 2, i + 1 + n))}}

\* the missing names by position of occurrence in the template
RECURSIVE MissingNames(_, _, _)
MissingNames(template, values, i) ==
  IF i > Len(template) THEN << >>
  ELSE IF MissingAt(template, values, i) # {}
       THEN <<CHOOSE name \in MissingAt(template, values, i) : TRUE>>
              \o MissingNames(template, values, i + 1)
       ELSE MissingNames(template, values, i + 1)

SubstitutedStrict == op = "substituteStrict"

\* C11: the strict substituter throws an InvalidPlaceholderError exactly when
\* the template has a placeholder whose name is not a key of values; the error
\* carries every missing name in order of occurrence and the original
\* template, and no string is returned; otherwise a string is returned,
\* whatever unused entries values holds.
C11_ThrowsExactlyOnMissing ==
  SubstitutedStrict =>
    LET missing == MissingNames(call.template, call.values, 1)
    IN IF missing # << >>
       THEN result = InvalidPlaceholderError(missing, call.template)
       ELSE result.type = "string"

\* C11 witness: "{{count}}{{a}}" with the unused entry b: both names are
\* reported, in template order
C11_Witness ==
  /\ SubstitutedStrict
  /\ call.template = OPEN \o S_count \o CLOSE \o OPEN \o S_name \o CLOSE
  /\ HasKey(call.values, S_other2)
  /\ result.type = "throw"
  /\ result.missingPlaceholders = <<S_count, S_name>>
  /\ result.template = call.template

\* C11 witness: an unused entry and no missing name: a string is returned
C11_WitnessUnused ==
  /\ SubstitutedStrict
  /\ call.template = OPEN \o S_name \o CLOSE \o OPEN \o S_a_b \o CLOSE
  /\ HasKey(call.values, S_other2)
  /\ HasKey(call.values, S_name)
  /\ result.type = "string"

-----------------------------------------------------------------------------
(* validation: the checks of validateTranslations, flat structure.         *)
(* A namespace is the list of its entries in for-in order; a translation   *)
(* file is the list of its namespaces in for-in order.                     *)

ValidationError(type, namespace, key) ==
  [type |-> type, namespace |-> namespace, key |-> key]

\* the keys of the string entries, in order
RECURSIVE collectAllKeys(_)
collectAllKeys(obj) ==
  IF obj = << >> THEN << >>
  ELSE (IF Head(obj).value.type = "string" THEN <<Head(obj).key>> ELSE << >>)
         \o collectAllKeys(Tail(obj))

\* s.endsWith(suffix)
EndsWith(s, suffix) ==
  Len(s) >= Len(suffix) /\ MatchAt(s, suffix, Len(s) - Len(suffix) + 1)

NoMatch == [matched |-> FALSE]

\* key.match(/^(.+)_(one|other)$/)
PluralKeyMatch(key) ==
  IF EndsWith(key, SUF_one) /\ Len(key) > Len(SUF_one)
  THEN [matched |-> TRUE, baseKey |-> SubSeq(key, 1, Len(key) - Len(SUF_one)),
        suffix |-> "one"]
  ELSE IF EndsWith(key, SUF_other) /\ Len(key) > Len(SUF_other)
  THEN [matched |-> TRUE, baseKey |-> SubSeq(key, 1, Len(key) - Len(SUF_other)),
        suffix |-> "other"]
  ELSE NoMatch

\* the keys of the pluralKeys map, in insertion order
RECURSIVE PluralBaseKeys(_, _)
PluralBaseKeys(keys, seen) ==
  IF keys = << >> THEN << >>
  ELSE LET match == PluralKeyMatch(Head(keys))
       IN IF match.matched /\ match.baseKey \notin seen
          THEN <<match.baseKey>>
                 \o PluralBaseKeys(Tail(keys), seen \cup {match.baseKey})
          ELSE PluralBaseKeys(Tail(keys), seen)

\* pluralKeys.get(baseKey)
PluralSuffixes(keys, baseKey) ==
  {PluralKeyMatch(keys[i]).suffix : i \in
     {i \in 1..Len(keys) :
        PluralKeyMatch(keys[i]).matched /\ PluralKeyMatch(keys[i]).baseKey = baseKey}}

RECURSIVE PluralCheckLoop(_, _, _, _)
PluralCheckLoop(namespace, keys, baseKeys, i) ==
  IF i > Len(baseKeys) THEN << >>
  ELSE LET suffixes == PluralSuffixes(keys, baseKeys[i])
       IN (IF "one" \notin suffixes
           THEN <<ValidationError("missing-plural-one", namespace, baseKeys[i])>>
           ELSE << >>)
          \o (IF "other" \notin suffixes
              THEN <<ValidationError("missing-plural-other", namespace, baseKeys[i])>>
              ELSE << >>)
          \o PluralCheckLoop(namespace, keys, baseKeys, i + 1)

validatePluralKeys(namespace, translations) ==
  LET keys == collectAllKeys(translations)
  IN PluralCheckLoop(namespace, keys, PluralBaseKeys(keys, {}), 1)

\* mutant: an object value passes as a first level of nesting
IsNestedNever(value) == FALSE

\* typeof value === "object" && value !== null
IsNested(value) == value.type = "object"

RECURSIVE validateNesting(_, _)
validateNesting(namespace, translations) ==
  IF translations = << >> THEN << >>
  ELSE (IF IsNested(Head(translations).value)
        THEN <<ValidationError("invalid-nesting", namespace, Head(translations).key)>>
        ELSE << >>)
         \o validateNesting(namespace, Tail(translations))

\* mutant: the pattern without the dot
ValidKeyPatternNoDots(key) ==
  /\ Len(key) >= 1
  /\ key[1] \in Letters \cup {"_"}
  /\ \A j \in 2..Len(key) : key[j] \in Letters \cup Digits \cup {"_"}

\* /^[a-zA-Z_][a-zA-Z0-9_.]*$/.test(key)
ValidKeyPattern(key) ==
  /\ Len(key) >= 1
  /\ key[1] \in Letters \cup {"_"}
  /\ \A j \in 2..Len(key) : key[j] \in Letters \cup Digits \cup {"_", "."}

RECURSIVE validateKeyNames(_, _)
validateKeyNames(namespace, translations) ==
  IF translations = << >> THEN << >>
  ELSE (IF ~ValidKeyPattern(Head(translations).key)
        THEN <<ValidationError("invalid-key-name", namespace, Head(translations).key)>>
        ELSE << >>)
         \o validateKeyNames(namespace, Tail(translations))

\* the last position of the longest run of characters outside excluded that
\* starts at i (i - 1 when the run is empty): a greedy [^...]+
RECURSIVE RunEndNotIn(_, _, _)
RunEndNotIn(s, excluded, i) ==
  IF i <= Len(s) /\ s[i] \notin excluded THEN RunEndNotIn(s, excluded, i + 1)
  ELSE i - 1

\* value.matchAll(/\{\{([^{}]+)\}\}/g), the captures in order
RECURSIVE PlaceholderNamesFrom(_, _)
PlaceholderNamesFrom(value, i) ==
  IF i > Len(value) THEN << >>
  ELSE LET e == RunEndNotIn(value, {"{", "}"}, i + 2)
       IN IF MatchAt(value, OPEN, i) /\ e >= i + 2 /\ MatchAt(value, CLOSE, e + 1)
          THEN <<SubSeq(value, i + 2, e)>> \o PlaceholderNamesFrom(value, e + 3)
          ELSE PlaceholderNamesFrom(value, i + 1)

\* mutant: the key pattern, dots included, is applied to placeholder names
ValidPlaceholderNameDots(placeholderName) == ValidKeyPattern(placeholderName)

\* /^[a-zA-Z_][a-zA-Z0-9_]*$/.test(placeholderName)
ValidPlaceholderName(placeholderName) ==
  /\ Len(placeholderName) >= 1
  /\ placeholderName[1] \in Letters \cup {"_"}
  /\ \A j \in 2..Len(placeholderName) :
       placeholderName[j] \in Letters \cup Digits \cup {"_"}

RECURSIVE PlaceholderMatchLoop(_, _, _)
PlaceholderMatchLoop(namespace, key, names) ==
  IF names = << >> THEN << >>
  ELSE (IF ~ValidPlaceholderName(Head(names))
        THEN <<ValidationError("invalid-placeholder", namespace, key)>>
        ELSE << >>)
         \o PlaceholderMatchLoop(namespace, key, Tail(names))

RECURSIVE validatePlaceholders(_, _)
validatePlaceholders(namespace, translations) ==
  IF translations = << >> THEN << >>
  ELSE (IF Head(translations).value.type = "string"
        THEN PlaceholderMatchLoop(namespace, Head(translations).key,
                                  PlaceholderNamesFrom(Head(translations).value.str, 1))
        ELSE << >>)
         \o validatePlaceholders(namespace, Tail(translations))

\* one namespace of a translation file
Namespace(namespace, translations) ==
  [namespace |-> namespace, translations |-> translations]

ValidationResult(errors) ==
  [type |-> "result", valid |-> Len(errors) = 0, errors |-> errors, warnings |-> << >>]

RECURSIVE NamespaceLoop(_)
NamespaceLoop(translations) ==
  IF translations = << >> THEN << >>
  ELSE LET namespace == Head(translations).namespace
           namespaceTranslations == Head(translations).translations
       IN validatePluralKeys(namespace, namespaceTranslations)
            \o validateNesting(namespace, namespaceTranslations)
            \o validateKeyNames(namespace, namespaceTranslations)
            \o validatePlaceholders(namespace, namespaceTranslations)
            \o NamespaceLoop(Tail(translations))

\* mutant: a namespace's checks stop at the first check that finds errors,
\* and the file's at the first namespace that has errors
RECURSIVE NamespaceLoopShortCircuit(_)
NamespaceLoopShortCircuit(translations) ==
  IF translations = << >> THEN << >>
  ELSE LET namespace == Head(translations).namespace
           namespaceTranslations == Head(translations).translations
           errors ==
             IF validatePluralKeys(namespace, namespaceTranslations) # << >>
             THEN validatePluralKeys(namespace, namespaceTranslations)
             ELSE IF validateNesting(namespace, namespaceTranslations) # << >>
             THEN validateNesting(namespace, namespaceTranslations)
             ELSE IF validateKeyNames(namespace, namespaceTranslations) # << >>
             THEN validateKeyNames(namespace, namespaceTranslations)
             ELSE validatePlaceholders(namespace, namespaceTranslations)
       IN IF errors # << >> THEN errors
          ELSE NamespaceLoopShortCircuit(Tail(translations))

validateTranslationsShortCircuit(translations) ==
  ValidationResult(NamespaceLoopShortCircuit(translations))

validateTranslations(translations) == ValidationResult(NamespaceLoop(translations))

-----------------------------------------------------------------------------
(* validateTranslations over translation files *)

S_profile == <<"p">>
S_1a == <<"1", "a">>
S_greeting == <<"g">>
S_empty == <<"e">>
S_spaced == <<"s">>
S_user_name == <<"u", "_", "n">>

\* the entries a namespace is composed of: a plural family, a hyphenated, a
\* digit-led and a dotted key, a nested object, and values whose brace pairs
\* enclose "a-b" and "p.q", nothing, and "a b"
ValidatorPool ==
  <<Entry(S_k \o SUF_one, StrVal(S_x)),
    Entry(S_k \o SUF_few, StrVal(S_x)),
    Entry(S_k \o SUF_other, StrVal(OPEN \o S_count \o CLOSE \o S_x)),
    Entry(S_a_b, StrVal(S_x)),
    Entry(S_1a, StrVal(S_x)),
    Entry(S_pq, StrVal(OPEN \o S_user_name \o CLOSE)),
    Entry(S_profile, ObjVal),
    Entry(S_greeting, StrVal(OPEN \o S_a_b \o CLOSE \o OPEN \o S_pq \o CLOSE)),
    Entry(S_empty, StrVal(OPEN \o CLOSE)),
    Entry(S_spaced, StrVal(OPEN \o <<"a", " ", "b">> \o CLOSE))>>

\* the entries of pool at the chosen positions, in pool order
RECURSIVE SelectEntries(_, _, _)
SelectEntries(pool, chosen, i) ==
  IF i > Len(pool) THEN << >>
  ELSE (IF i \in chosen THEN <<pool[i]>> ELSE << >>)
         \o SelectEntries(pool, chosen, i + 1)

ValidatorNamespaces ==
  {SelectEntries(ValidatorPool, chosen, 1) : chosen \in SUBSET (1..Len(ValidatorPool))}

\* what follows the namespace n in the file: nothing, or the namespace m
OtherNamespaces ==
  {<< >>,
   <<Namespace(S_m, << >>)>>,
   <<Namespace(S_m, <<ValidatorPool[1]>>)>>,
   <<Namespace(S_m, <<ValidatorPool[4]>>)>>}

TranslationFiles ==
  {<<Namespace(S_n, translations)>> \o others :
     translations \in ValidatorNamespaces, others \in OtherNamespaces}

InitValidate ==
  /\ catalog = [locale \in CatalogLocales |-> File(locale, {}, {})]
  /\ requirements = [isArray |-> FALSE, item |-> PageRequirement]
  /\ messages = NoMessages
  /\ call \in {[fn |-> "validateTranslations", translations |-> translations] :
                 translations \in TranslationFiles}
  /\ result = Undefined
  /\ op = "init"

Validate ==
  /\ op = "init"
  /\ result' = validateTranslations(call.translations)
  /\ op' = "validate"
  /\ UNCHANGED <<catalog, requirements, messages, call>>

NextValidate == Validate

SpecValidate == InitValidate /\ [][NextValidate]_vars

-----------------------------------------------------------------------------
(* Properties of validateTranslations *)

Validated == op = "validate"

FileNamespaces == 1..Len(call.translations)

\* the keys of the string entries of the n-th namespace of the file
StringKeys(n) ==
  {call.translations[n].translations[i].key : i \in
     {i \in 1..Len(call.translations[n].translations) :
        call.translations[n].translations[i].value.type = "string"}}

PluralSuffixesAll == {SUF_zero, SUF_one, SUF_two, SUF_few, SUF_many, SUF_other}

\* the base names that have a plural-suffixed sibling of any category
PluralBases(n) ==
  {SubSeq(key, 1, Len(key) - Len(suffix)) : <<key, suffix>> \in
     {ks \in StringKeys(n) \X PluralSuffixesAll :
        EndsWith(ks[1], ks[2]) /\ Len(ks[1]) > Len(ks[2])}}

\* the positions of the errors reported for a key of the n-th namespace
ErrorsFor(n, key) ==
  {i \in 1..Len(result.errors) :
     /\ result.errors[i].namespace = call.translations[n].namespace
     /\ result.errors[i].key = key}

\* C12: every base name with a plural-suffixed sibling of any category and
\* no _other sibling gets exactly one error, tagged missing-plural-other, with
\* the base name as key.
C12_OneMissingOtherPerFamily ==
  Validated =>
    \A n \in FileNamespaces : \A base \in PluralBases(n) :
      (base \o SUF_other) \notin StringKeys(n) =>
        \E i \in ErrorsFor(n, base) :
          /\ ErrorsFor(n, base) = {i}
          /\ result.errors[i].type = "missing-plural-other"

\* C13: a plural family with an _other sibling and no _one sibling gets no
\* error, and the file is valid when no error concerns anything else.
C13_OtherAloneIsValid ==
  Validated =>
    \A n \in FileNamespaces : \A base \in PluralBases(n) :
      ((base \o SUF_other) \in StringKeys(n) /\ (base \o SUF_one) \notin StringKeys(n)) =>
        /\ ErrorsFor(n, base) = {}
        /\ (\A i \in 1..Len(result.errors) : i \in ErrorsFor(n, base)) => result.valid

-----------------------------------------------------------------------------
(* validation: validateCrossLocale.  localeTranslations is the list of the *)
(* locales in Object.keys order, each with its translation file.           *)

CrossLocaleError(type, namespace, key, locale, referenceLocale) ==
  [type |-> type, namespace |-> namespace, key |-> key,
   locale |-> locale, referenceLocale |-> referenceLocale]

LocaleFile(locale, file) == [locale |-> locale, file |-> file]

\* Object.keys(localeTranslations[locale])
RECURSIVE NamespaceNames(_)
NamespaceNames(file) ==
  IF file = << >> THEN << >>
  ELSE <<Head(file).namespace>> \o NamespaceNames(Tail(file))

\* names.forEach((ns) => allNamespaces.add(ns))
RECURSIVE AddAll(_, _)
AddAll(allNamespaces, names) ==
  IF names = << >> THEN allNamespaces
  ELSE AddAll(IF \E i \in 1..Len(allNamespaces) : allNamespaces[i] = Head(names)
              THEN allNamespaces
              ELSE Append(allNamespaces, Head(names)),
              Tail(names))

RECURSIVE AllNamespacesLoop(_, _, _)
AllNamespacesLoop(localeTranslations, allNamespaces, i) ==
  IF i > Len(localeTranslations) THEN allNamespaces
  ELSE AllNamespacesLoop(localeTranslations,
                         AddAll(allNamespaces, NamespaceNames(localeTranslations[i].file)),
                         i + 1)

\* mutant: only the namespaces of the reference locale are compared
AllNamespacesOfReference(localeTranslations) ==
  NamespaceNames(localeTranslations[1].file)

\* the union of the namespaces of all locales, in insertion order
AllNamespaces(localeTranslations) == AllNamespacesLoop(localeTranslations, << >>, 1)

\* localeTranslations[locale]?.[namespace]
LookupNamespace(file, namespace) ==
  IF \E i \in 1..Len(file) : file[i].namespace = namespace
  THEN file[CHOOSE i \in 1..Len(file) : file[i].namespace = namespace]
  ELSE Undefined

\* localeKeys.get(locale)
LocaleKeys(file, namespace) ==
  LET translations == LookupNamespace(file, namespace)
  IN IF translations # Undefined THEN collectAllKeys(translations.translations)
     ELSE << >>

HasKeyIn(keys, key) == \E i \in 1..Len(keys) : keys[i] = key

RECURSIVE MissingKeyErrors(_, _, _, _, _, _)
MissingKeyErrors(namespace, referenceKeys, targetKeys, targetLocale, referenceLocale, i) ==
  IF i > Len(referenceKeys) THEN << >>
  ELSE (IF ~HasKeyIn(targetKeys, referenceKeys[i])
        THEN <<CrossLocaleError("missing-key", namespace, referenceKeys[i],
                                targetLocale, referenceLocale)>>
        ELSE << >>)
         \o MissingKeyErrors(namespace, referenceKeys, targetKeys, targetLocale,
                             referenceLocale, i + 1)

RECURSIVE ExtraKeyErrors(_, _, _, _, _, _)
ExtraKeyErrors(namespace, referenceKeys, targetKeys, targetLocale, referenceLocale, i) ==
  IF i > Len(targetKeys) THEN << >>
  ELSE (IF ~HasKeyIn(referenceKeys, targetKeys[i])
        THEN <<CrossLocaleError("extra-key", namespace, targetKeys[i],
                                targetLocale, referenceLocale)>>
        ELSE << >>)
         \o ExtraKeyErrors(namespace, referenceKeys, targetKeys, targetLocale,
                           referenceLocale, i + 1)

\* mutant: the extra keys of the target are not looked for
CompareWithReferenceMissingOnly(localeTranslations, namespace, i) ==
  MissingKeyErrors(namespace, LocaleKeys(localeTranslations[1].file, namespace),
                   LocaleKeys(localeTranslations[i].file, namespace),
                   localeTranslations[i].locale, localeTranslations[1].locale, 1)

\* the body of the loop over the target locales
CompareWithReference(localeTranslations, namespace, i) ==
  LET referenceLocale == localeTranslations[1].locale
      referenceKeys == LocaleKeys(localeTranslations[1].file, namespace)
      targetLocale == localeTranslations[i].locale
      targetKeys == LocaleKeys(localeTranslations[i].file, namespace)
  IN MissingKeyErrors(namespace, referenceKeys, targetKeys, targetLocale,
                      referenceLocale, 1)
       \o ExtraKeyErrors(namespace, referenceKeys, targetKeys, targetLocale,
                         referenceLocale, 1)

RECURSIVE TargetLoop(_, _, _)
TargetLoop(localeTranslations, namespace, i) ==
  IF i > Len(localeTranslations) THEN << >>
  ELSE CompareWithReference(localeTranslations, namespace, i)
         \o TargetLoop(localeTranslations, namespace, i + 1)

RECURSIVE CrossNamespaceLoop(_, _, _)
CrossNamespaceLoop(localeTranslations, allNamespaces, n) ==
  IF n > Len(allNamespaces) THEN << >>
  ELSE TargetLoop(localeTranslations, allNamespaces[n], 2)
         \o CrossNamespaceLoop(localeTranslations, allNamespaces, n + 1)

validateCrossLocale(localeTranslations) ==
  IF Len(localeTranslations) < 2 THEN ValidationResult(<< >>)
  ELSE ValidationResult(CrossNamespaceLoop(localeTranslations,
                                           AllNamespaces(localeTranslations), 1))

-----------------------------------------------------------------------------
(* validateCrossLocale over two or three locales *)

S_submit == <<"s">>
S_cancel == <<"c">>

\* the entries of the namespace n of a locale; the last one is a nested object
CrossLocalePool ==
  <<Entry(S_submit, StrVal(S_x)),
    Entry(S_cancel, StrVal(S_x)),
    Entry(S_pq, StrVal(S_x)),
    Entry(S_profile, ObjVal)>>

\* the namespace n, absent or with some of the entries of the pool
CrossNamespacesN ==
  {<< >>}
  \cup {<<Namespace(S_n, SelectEntries(CrossLocalePool, chosen, 1))>> :
          chosen \in SUBSET (1..Len(CrossLocalePool))}

\* the namespace m, absent or with the one entry s
CrossNamespacesM == {<< >>, <<Namespace(S_m, <<CrossLocalePool[1]>>)>>}

CrossFiles == {n \o m : n \in CrossNamespacesN, m \in CrossNamespacesM}

\* the files of a third locale
ThirdFiles ==
  {<< >>,
   <<Namespace(S_n, <<CrossLocalePool[1]>>)>>,
   <<Namespace(S_m, <<CrossLocalePool[1]>>)>>}

LocaleTranslationsInputs ==
  {<<LocaleFile("en", en)>> : en \in CrossFiles}
  \cup {<<LocaleFile("en", en), LocaleFile("ja", ja)>> : en \in CrossFiles, ja \in CrossFiles}
  \cup {<<LocaleFile("ja", ja), LocaleFile("en", en)>> : en \in CrossFiles, ja \in CrossFiles}
  \cup {<<LocaleFile("en", en), LocaleFile("ja", ja), LocaleFile("ar", ar)>> :
          en \in CrossFiles, ja \in CrossFiles, ar \in ThirdFiles}

InitCrossLocale ==
  /\ catalog = [locale \in CatalogLocales |-> File(locale, {}, {})]
  /\ requirements = [isArray |-> FALSE, item |-> PageRequirement]
  /\ messages = NoMessages
  /\ call \in {[fn |-> "validateCrossLocale", localeTranslations |-> localeTranslations] :
                 localeTranslations \in LocaleTranslationsInputs}
  /\ result = Undefined
  /\ op = "init"

ValidateCrossLocale ==
  /\ op = "init"
  /\ result' = validateCrossLocale(call.localeTranslations)
  /\ op' = "validateCrossLocale"
  /\ UNCHANGED <<catalog, requirements, messages, call>>

NextCrossLocale == ValidateCrossLocale

SpecCrossLocale == InitCrossLocale /\ [][NextCrossLocale]_vars

-----------------------------------------------------------------------------
(* Properties of validateCrossLocale *)

CrossValidated == op = "validateCrossLocale"

CrossLocales == 1..Len(call.localeTranslations)

\* the names of the namespaces of the l-th locale
NamespacesIn(l) ==
  {call.localeTranslations[l].file[n].namespace : n \in
     1..Len(call.localeTranslations[l].file)}

\* the keys of the string entries of a namespace in the l-th locale; none
\* when the locale has no such namespace
KeysIn(l, namespace) ==
  LET file == call.localeTranslations[l].file
  IN UNION {{file[n].translations[i].key : i \in
               {i \in 1..Len(file[n].translations) :
                  file[n].translations[i].value.type = "string"}} :
            n \in {n \in 1..Len(file) : file[n].namespace = namespace}}

UnionNamespaces == UNION {NamespacesIn(l) : l \in CrossLocales}

\* how many times the result has the error
Reported(error) ==
  Cardinality({i \in 1..Len(result.errors) : result.errors[i] = error})

ReferenceLocale == call.localeTranslations[1].locale

\* C14: with two or more locales, for every namespace and every locale T after
\* the first, each key of the first locale that T lacks is reported once as
\* missing-key and each key of T that the first locale lacks once as
\* extra-key, with locale T and the first locale as referenceLocale, and
\* nothing else is reported.
C14_MissingAndExtraKeys ==
  (CrossValidated /\ Len(call.localeTranslations) >= 2) =>
    /\ \A namespace \in UnionNamespaces : \A t \in CrossLocales \ {1} :
         LET T == call.localeTranslations[t].locale
         IN /\ \A key \in KeysIn(1, namespace) \ KeysIn(t, namespace) :
                 Reported(CrossLocaleError("missing-key", namespace, key, T,
                                           ReferenceLocale)) = 1
            /\ \A key \in KeysIn(t, namespace) \ KeysIn(1, namespace) :
                 Reported(CrossLocaleError("extra-key", namespace, key, T,
                                           ReferenceLocale)) = 1
    /\ \A i \in 1..Len(result.errors) :
         \E t \in CrossLocales \ {1} :
           LET error == result.errors[i]
           IN /\ error.locale = call.localeTranslations[t].locale
              /\ error.referenceLocale = ReferenceLocale
              /\ \/ /\ error.type = "missing-key"
                    /\ error.key \in KeysIn(1, error.namespace) \ KeysIn(t, error.namespace)
                 \/ /\ error.type = "extra-key"
                    /\ error.key \in KeysIn(t, error.namespace) \ KeysIn(1, error.namespace)
    /\ result.valid = (Len(result.errors) = 0)

\* C14 witness: ja is the reference; en lacks the key c of ja and has the key
\* p.q that ja lacks
C14_Witness ==
  /\ CrossValidated
  /\ Len(call.localeTranslations) = 2
  /\ ReferenceLocale = "ja"
  /\ Reported(CrossLocaleError("missing-key", S_n, S_cancel, "en", "ja")) = 1
  /\ Reported(CrossLocaleError("extra-key", S_n, S_pq, "en", "ja")) = 1
  /\ S_submit \in KeysIn(1, S_n) \cap KeysIn(2, S_n)
  /\ Len(result.errors) = 2

\* C15: a namespace that a locale lacks counts as an empty key set there:
\* lacked by a target, every key the reference has in it is reported as
\* missing-key; lacked by the reference, every key a target has in it is
\* reported as extra-key; no error of another type is produced and the
\* call returns a result.
C15_AbsentNamespaceIsEmpty ==
  CrossValidated =>
    /\ result.type = "result"
    /\ \A i \in 1..Len(result.errors) :
         result.errors[i].type \in {"missing-key", "extra-key"}
    /\ Len(call.localeTranslations) >= 2 =>
         \A namespace \in UnionNamespaces : \A t \in CrossLocales \ {1} :
           LET T == call.localeTranslations[t].locale
           IN /\ namespace \notin NamespacesIn(t) =>
                   \A key \in KeysIn(1, namespace) :
                     Reported(CrossLocaleError("missing-key", namespace, key, T,
                                               ReferenceLocale)) >= 1
              /\ namespace \notin NamespacesIn(1) =>
                   \A key \in KeysIn(t, namespace) :
                     Reported(CrossLocaleError("extra-key", namespace, key, T,
                                               ReferenceLocale)) >= 1

\* C15 witness: en, ja, ar: the reference en lacks the namespace m, which ja
\* has, and ar lacks the namespace n, in which en has keys
C15_Witness ==
  /\ CrossValidated
  /\ Len(call.localeTranslations) = 3
  /\ S_m \notin NamespacesIn(1)
  /\ S_n \notin NamespacesIn(3)
  /\ Reported(CrossLocaleError("extra-key", S_m, S_submit, "ja", "en")) = 1
  /\ Reported(CrossLocaleError("missing-key", S_n, S_cancel, "ar", "en")) = 1

-----------------------------------------------------------------------------
(* Properties of the checks of validateTranslations *)

\* the entries of the n-th namespace of the file
EntriesOf(n) ==
  {call.translations[n].translations[i] : i \in
     1..Len(call.translations[n].translations)}

NamespaceName(n) == call.translations[n].namespace

\* a letter or underscore followed by letters, digits, underscores or dots
KeyName(key) ==
  /\ key # << >>
  /\ Head(key) \in Letters \cup {"_"}
  /\ \A j \in 1..Len(Tail(key)) : Tail(key)[j] \in Letters \cup Digits \cup {"_", "."}

Identifier(text) ==
  /\ text # << >>
  /\ Head(text) \in Letters \cup {"_"}
  /\ \A j \in 1..Len(Tail(text)) : Tail(text)[j] \in Letters \cup Digits \cup {"_"}

\* a span starts at i: a brace pair around len characters, none of them a brace
SpanAt(value, i, len) ==
  /\ len >= 1
  /\ MatchAt(value, OPEN, i)
  /\ i + 1 + len <= Len(value)
  /\ \A j \in (i + 2)..(i + 1 + len) : value[j] \notin {"{", "}"}
  /\ MatchAt(value, CLOSE, i + 2 + len)

\* where the spans start whose enclosed text is not an identifier
BadSpans(value) ==
  {i \in 1..Len(value) :
     \E len \in 1..Len(value) :
       SpanAt(value, i, len) /\ ~Identifier(SubSeq(value, i + 2, i + 1 + len))}

\* C18: a string value gets one invalid-placeholder error for each of its
\* spans whose enclosed text is not an identifier, so none when every span
\* encloses an identifier.
C18_PlaceholderErrors ==
  Validated =>
    \A n \in FileNamespaces : \A entry \in EntriesOf(n) :
      entry.value.type = "string" =>
        Reported(ValidationError("invalid-placeholder", NamespaceName(n), entry.key))
          = Cardinality(BadSpans(entry.value.str))

\* C18 witness: "{{a-b}}{{p.q}}" gets two errors, "{{a b}}" one, "{{u_n}}"
\* and "{{count}}x" none
C18_Witness ==
  /\ Validated
  /\ {S_greeting, S_spaced, S_pq, S_k \o SUF_other}
       \subseteq {entry.key : entry \in EntriesOf(1)}
  /\ Reported(ValidationError("invalid-placeholder", S_n, S_greeting)) = 2
  /\ Reported(ValidationError("invalid-placeholder", S_n, S_spaced)) = 1
  /\ Reported(ValidationError("invalid-placeholder", S_n, S_pq)) = 0
  /\ Reported(ValidationError("invalid-placeholder", S_n, S_k \o SUF_other)) = 0

\* how many times the list has the element
CountIn(list, element) ==
  Cardinality({i \in 1..Len(list) : list[i] = element})

\* what the four checks find in the n-th namespace
ChecksOf(n) ==
  {validatePluralKeys(NamespaceName(n), call.translations[n].translations),
   validateNesting(NamespaceName(n), call.translations[n].translations),
   validateKeyNames(NamespaceName(n), call.translations[n].translations),
   validatePlaceholders(NamespaceName(n), call.translations[n].translations)}

\* C19: the result is returned, not thrown, and its error list has every
\* error that each of the four checks finds in each namespace, whatever the
\* earlier checks and the earlier namespaces found.
C19_AllChecksAllNamespaces ==
  Validated =>
    /\ result.type = "result"
    /\ \A n \in FileNamespaces : \A found \in ChecksOf(n) :
         \A j \in 1..Len(found) : Reported(found[j]) >= CountIn(found, found[j])

\* C19 witness: the namespace n has an error of each of the four checks and
\* the namespace m after it has one of its own
C19_Witness ==
  /\ Validated
  /\ Len(call.translations) = 2
  /\ Reported(ValidationError("missing-plural-other", S_n, S_k)) = 1
  /\ Reported(ValidationError("invalid-nesting", S_n, S_profile)) = 1
  /\ Reported(ValidationError("invalid-key-name", S_n, S_1a)) = 1
  /\ Reported(ValidationError("invalid-placeholder", S_n, S_spaced)) = 1
  /\ Reported(ValidationError("invalid-key-name", S_m, S_a_b)) = 1

-----------------------------------------------------------------------------
(* mergeRequirements.  An argument is a requirement or an array of         *)
(* requirements, as RequirementsArray reads them.                          *)

\* requirements.flat()
RECURSIVE Flat(_)
Flat(reqs) ==
  IF reqs = << >> THEN << >>
  ELSE RequirementsArray(Head(reqs)) \o Flat(Tail(reqs))

\* a requirement already in the list is not added again
RECURSIVE Deduplicated(_, _)
Deduplicated(list, seen) ==
  IF list = << >> THEN << >>
  ELSE IF Head(list) \in seen THEN Deduplicated(Tail(list), seen)
       ELSE <<Head(list)>> \o Deduplicated(Tail(list), seen \cup {Head(list)})

\* mutant: repeated requirements are merged into one
mergeRequirementsDeduplicated(reqs) == Deduplicated(Flat(reqs), {})

mergeRequirements(reqs) == Flat(reqs)

MaxArguments == 2

MergePool ==
  {[namespace |-> S_n, keys |-> <<S_k, S_pq>>],
   [namespace |-> S_n, keys |-> <<S_k>>],
   [namespace |-> S_m, keys |-> <<S_k>>]}

MergeArguments ==
  {[isArray |-> TRUE, items |-> items] : items \in SeqsUpTo(MergePool, MaxRequirements)}
  \cup {[isArray |-> FALSE, item |-> item] : item \in MergePool}

InitMerge ==
  /\ catalog = [locale \in CatalogLocales |-> File(locale, {}, {})]
  /\ requirements = [isArray |-> FALSE, item |-> PageRequirement]
  /\ messages = NoMessages
  /\ call \in {[fn |-> "mergeRequirements", requirements |-> arguments] :
                 arguments \in SeqsUpTo(MergeArguments, MaxArguments)}
  /\ result = Undefined
  /\ op = "init"

MergeRequirements ==
  /\ op = "init"
  /\ result' = [type |-> "array", items |-> mergeRequirements(call.requirements)]
  /\ op' = "merge"
  /\ UNCHANGED <<catalog, requirements, messages, call>>

NextMerge == MergeRequirements

SpecMerge == InitMerge /\ [][NextMerge]_vars

-----------------------------------------------------------------------------
(* Properties of mergeRequirements *)

Merged == op = "merge"

\* how many requirements the a-th argument passes
PassedBy(a) ==
  IF call.requirements[a].isArray THEN Len(call.requirements[a].items) ELSE 1

\* the j-th requirement the a-th argument passes
PassedAt(a, j) ==
  IF call.requirements[a].isArray THEN call.requirements[a].items[j]
  ELSE call.requirements[a].item

\* how many requirements the arguments before the a-th pass
RECURSIVE PassedBefore(_)
PassedBefore(a) == IF a <= 1 THEN 0 ELSE PassedBefore(a - 1) + PassedBy(a - 1)

-----------------------------------------------------------------------------
(* The single merged requirement: mergeRequirements that returns one       *)
(* requirement of the namespace "__merged__", and the pickMessages that    *)
(* reads it.  A translation file maps namespaces to objects, and an object *)
(* maps keys to strings or to nested objects.                              *)

S_merged == <<"_", "_", "m", "e", "r", "g", "e", "d", "_", "_">>

NestedObj(entries) == [type |-> "object", entries |-> entries]

\* s.split(".")
RECURSIVE SplitFrom(_, _, _)
SplitFrom(s, i, part) ==
  IF i > Len(s) THEN <<part>>
  ELSE IF s[i] = "." THEN <<part>> \o SplitFrom(s, i + 1, << >>)
  ELSE SplitFrom(s, i + 1, Append(part, s[i]))

Split(s) == SplitFrom(s, 1, << >>)

\* parts.join(".")
RECURSIVE Join(_)
Join(parts) ==
  IF parts = << >> THEN << >>
  ELSE IF Len(parts) = 1 THEN Head(parts)
  ELSE Head(parts) \o DOT \o Join(Tail(parts))

\* key.includes(".")
IncludesDot(key) == \E i \in 1..Len(key) : key[i] = "."

\* the walk of getNestedValue along the segments of the path
RECURSIVE WalkPath(_, _, _)
WalkPath(current, keys, i) ==
  IF i > Len(keys) THEN current
  ELSE IF current.type = "object" /\ keys[i] \in DOMAIN current.entries
       THEN WalkPath(current.entries[keys[i]], keys, i + 1)
       ELSE Undefined

\* getNestedValue over a dot notation path
getNestedValuePath(obj, path) ==
  LET current == WalkPath(obj, Split(path), 1)
  IN IF current.type = "string" THEN current ELSE Undefined

LegacySuffixes == <<SUF_zero, SUF_one, SUF_other>>

RECURSIVE ExtractLoopLegacy(_, _, _)
ExtractLoopLegacy(namespaceData, baseKey, i) ==
  IF i > Len(LegacySuffixes) THEN << >>
  ELSE LET keyWithSuffix == baseKey \o LegacySuffixes[i]
       IN (IF keyWithSuffix \in DOMAIN namespaceData.entries
           THEN <<keyWithSuffix>>
           ELSE IF getNestedValuePath(namespaceData, keyWithSuffix) # Undefined
           THEN <<keyWithSuffix>>
           ELSE << >>)
            \o ExtractLoopLegacy(namespaceData, baseKey, i + 1)

extractPluralKeysLegacy(allMessages, namespace, baseKey) ==
  LET namespaceData == Get(allMessages, namespace)
  IN IF namespaceData = Undefined THEN << >>
     ELSE ExtractLoopLegacy(namespaceData, baseKey, 1)

RECURSIVE PickPluralLoopMerged(_, _, _, _, _)
PickPluralLoopMerged(messagesSoFar, namespaceData, actualNamespace, pluralKeys, i) ==
  IF i > Len(pluralKeys) THEN messagesSoFar
  ELSE LET value == getNestedValuePath(namespaceData, pluralKeys[i])
           next == IF value # Undefined
                   THEN Put(messagesSoFar, actualNamespace \o DOT \o pluralKeys[i],
                            value.str)
                   ELSE messagesSoFar
       IN PickPluralLoopMerged(next, namespaceData, actualNamespace, pluralKeys, i + 1)

\* actualNamespace and actualKey of a key of a requirement
Actual(namespace, key) ==
  IF namespace = S_merged /\ IncludesDot(key)
  THEN LET parts == Split(key)
       IN [namespace |-> parts[1], key |-> Join(Tail(parts))]
  ELSE [namespace |-> namespace, key |-> key]

RECURSIVE PickKeyLoopMerged(_, _, _, _, _)
PickKeyLoopMerged(messagesSoFar, allMessages, namespace, keys, i) ==
  IF i > Len(keys) THEN messagesSoFar
  ELSE LET actual == Actual(namespace, keys[i])
           namespaceData == Get(allMessages, actual.namespace)
           direct == Get(namespaceData.entries, actual.key)
           value == IF direct.type = "string" THEN direct
                    ELSE getNestedValuePath(namespaceData, actual.key)
           picked == IF value # Undefined
                     THEN Put(messagesSoFar, actual.namespace \o DOT \o actual.key,
                              value.str)
                     ELSE messagesSoFar
           pluralKeys == extractPluralKeysLegacy(allMessages, actual.namespace,
                                                 actual.key)
           next == IF namespaceData = Undefined THEN messagesSoFar
                   ELSE PickPluralLoopMerged(picked, namespaceData, actual.namespace,
                                             pluralKeys, 1)
       IN PickKeyLoopMerged(next, allMessages, namespace, keys, i + 1)

RECURSIVE PickRequirementLoopMerged(_, _, _, _)
PickRequirementLoopMerged(messagesSoFar, allMessages, requirementsArray, i) ==
  IF i > Len(requirementsArray) THEN messagesSoFar
  ELSE PickRequirementLoopMerged(
         PickKeyLoopMerged(messagesSoFar, allMessages, requirementsArray[i].namespace,
                           requirementsArray[i].keys, 1),
         allMessages, requirementsArray, i + 1)

pickMessagesMerged(allMessages, reqs) ==
  PickRequirementLoopMerged(EmptyMap, allMessages, RequirementsArray(reqs), 1)

\* keySet.add(key) for every key of the requirement
RECURSIVE AddKeys(_, _)
AddKeys(keySet, keys) ==
  IF keys = << >> THEN keySet
  ELSE AddKeys(IF HasKeyIn(keySet, Head(keys)) THEN keySet
               ELSE Append(keySet, Head(keys)),
               Tail(keys))

\* namespaceKeysMap after one more requirement: a list of namespaces in
\* insertion order, each with its keys in insertion order
AddRequirement(namespaceKeysMap, req) ==
  IF \E n \in 1..Len(namespaceKeysMap) : namespaceKeysMap[n].namespace = req.namespace
  THEN [n \in 1..Len(namespaceKeysMap) |->
          IF namespaceKeysMap[n].namespace = req.namespace
          THEN [namespace |-> req.namespace,
                keys |-> AddKeys(namespaceKeysMap[n].keys, req.keys)]
          ELSE namespaceKeysMap[n]]
  ELSE Append(namespaceKeysMap,
              [namespace |-> req.namespace, keys |-> AddKeys(<< >>, req.keys)])

RECURSIVE NamespaceKeysMap(_, _)
NamespaceKeysMap(flattened, namespaceKeysMap) ==
  IF flattened = << >> THEN namespaceKeysMap
  ELSE NamespaceKeysMap(Tail(flattened),
                        AddRequirement(namespaceKeysMap, Head(flattened)))

\* mutant: the keys of a merged requirement are prefixed again
RECURSIVE PrefixedKeysAlways(_, _)
PrefixedKeysAlways(namespace, keys) ==
  IF keys = << >> THEN << >>
  ELSE <<namespace \o DOT \o Head(keys)>> \o PrefixedKeysAlways(namespace, Tail(keys))

\* the keys of one namespace, prefixed unless the namespace is the merged one
RECURSIVE PrefixedKeys(_, _)
PrefixedKeys(namespace, keys) ==
  IF keys = << >> THEN << >>
  ELSE <<IF namespace = S_merged THEN Head(keys) ELSE namespace \o DOT \o Head(keys)>>
         \o PrefixedKeys(namespace, Tail(keys))

RECURSIVE AllKeys(_)
AllKeys(namespaceKeysMap) ==
  IF namespaceKeysMap = << >> THEN << >>
  ELSE PrefixedKeys(Head(namespaceKeysMap).namespace, Head(namespaceKeysMap).keys)
         \o AllKeys(Tail(namespaceKeysMap))

mergeRequirementsMerged(reqs) ==
  LET flattened == Flat(reqs)
  IN IF Len(flattened) = 0 THEN [namespace |-> S_merged, keys |-> << >>]
     ELSE [namespace |-> S_merged,
           keys |-> AllKeys(NamespaceKeysMap(flattened, << >>))]

-----------------------------------------------------------------------------
(* pickMessages of a merged requirement next to pickMessages of the list *)

S_nm == <<"n", ".", "m">>
S_mk == <<"m", ".", "k">>
S_q == <<"q">>

\* the namespace n: the key k, with or without plural siblings, the flat
\* dotted key m.k and the nested object p with the key q
MergedNamespaceN(siblings) ==
  NestedObj([key \in {S_k, S_mk, S_profile} \cup siblings |->
               IF key = S_profile THEN NestedObj([kk \in {S_q} |-> StrVal(<<"Q">>)])
               ELSE IF key = S_mk THEN StrVal(<<"M">>)
               ELSE IF key = S_k THEN StrVal(<<"L">>)
               ELSE StrVal(<<"P">>)])

\* translation files: the namespace n alone, or with the namespace n.m,
\* whose name has a dot
MergedFiles ==
  {[ns \in {S_n} |-> MergedNamespaceN(siblings)] :
     siblings \in {{}, {S_k \o SUF_one, S_k \o SUF_other}}}
  \cup {[ns \in {S_n, S_nm} |->
           IF ns = S_n THEN MergedNamespaceN(siblings)
           ELSE NestedObj([key \in {S_k} |-> StrVal(<<"D">>)])] :
          siblings \in {{}, {S_k \o SUF_one, S_k \o SUF_other}}}

MergedPool ==
  {[namespace |-> S_n, keys |-> <<S_k>>],
   [namespace |-> S_n, keys |-> <<S_pq, S_k>>],
   [namespace |-> S_m, keys |-> <<S_k>>],
   [namespace |-> S_nm, keys |-> <<S_k>>]}

MergedArguments ==
  {[isArray |-> TRUE, items |-> items] : items \in SeqsUpTo(MergedPool, MaxRequirements)}
  \cup {[isArray |-> FALSE, item |-> item] : item \in MergedPool}

InitPickMerged ==
  /\ catalog \in MergedFiles
  /\ requirements \in SeqsUpTo(MergedArguments, MaxArguments)
  /\ messages = NoMessages
  /\ call = NoCall
  /\ result = Undefined
  /\ op = "init"

\* pickMessages(allMessages, mergeRequirements(...requirements)) and
\* pickMessages(allMessages, requirements.flat())
PickMerged ==
  /\ op = "init"
  /\ result' =
       [merged |-> pickMessagesMerged(catalog,
                     [isArray |-> FALSE, item |-> mergeRequirementsMerged(requirements)]),
        list |-> pickMessagesMerged(catalog,
                   [isArray |-> TRUE, items |-> Flat(requirements)])]
  /\ op' = "pickMerged"
  /\ UNCHANGED <<catalog, requirements, messages, call>>

NextPickMerged == PickMerged

SpecPickMerged == InitPickMerged /\ [][NextPickMerged]_vars

-----------------------------------------------------------------------------
(* Properties of the merged requirement *)

\* C21: picking with the merged requirement of r1..rn resolves exactly the
\* entries that picking with the list r1..rn resolves.
C21_MergedPicksLikeList ==
  op = "pickMerged" => result.merged = result.list

-----------------------------------------------------------------------------
(* The calls a page and the check command make on one catalog: pick,       *)
(* translate, validate each locale, validate across the locales            *)

\* the keys, namespaces and locales of a catalog in the order of their
\* properties
KeyOrder ==
  <<S_k, S_k \o SUF_zero, S_k \o SUF_one, S_k \o SUF_few, S_k \o SUF_other, S_pq>>

NamespaceOrder == <<S_n, S_m>>

LocaleOrder == <<"en", "ja", "ar">>

\* the entries of an object as for-in visits them
RECURSIVE EntriesInOrder(_, _)
EntriesInOrder(obj, i) ==
  IF i > Len(KeyOrder) THEN << >>
  ELSE (IF KeyOrder[i] \in DOMAIN obj THEN <<Entry(KeyOrder[i], obj[KeyOrder[i]])>>
        ELSE << >>)
         \o EntriesInOrder(obj, i + 1)

\* the namespaces of a translation file as for-in visits them
RECURSIVE NamespacesInOrder(_, _)
NamespacesInOrder(file, i) ==
  IF i > Len(NamespaceOrder) THEN << >>
  ELSE (IF NamespaceOrder[i] \in DOMAIN file
        THEN <<Namespace(NamespaceOrder[i],
                         EntriesInOrder(file[NamespaceOrder[i]].entries, 1))>>
        ELSE << >>)
         \o NamespacesInOrder(file, i + 1)

\* the locales of a catalog as Object.keys lists them
RECURSIVE LocalesInOrder(_, _)
LocalesInOrder(localeTranslations, i) ==
  IF i > Len(LocaleOrder) THEN << >>
  ELSE (IF LocaleOrder[i] \in DOMAIN localeTranslations
        THEN <<LocaleFile(LocaleOrder[i],
                          NamespacesInOrder(localeTranslations[LocaleOrder[i]], 1))>>
        ELSE << >>)
         \o LocalesInOrder(localeTranslations, i + 1)

ValidateLocale(locale) ==
  /\ locale \in DOMAIN catalog
  /\ result' = validateTranslations(NamespacesInOrder(catalog[locale], 1))
  /\ call' = [fn |-> "validateTranslations", locale |-> locale]
  /\ op' = "validateLocale"
  /\ UNCHANGED <<catalog, requirements, messages>>

ValidateLocales ==
  /\ result' = validateCrossLocale(LocalesInOrder(catalog, 1))
  /\ call' = [fn |-> "validateCrossLocale"]
  /\ op' = "validateLocales"
  /\ UNCHANGED <<catalog, requirements, messages>>

NextCalls ==
  \/ \E locale \in Locales : PickMessages(locale)
  \/ \E namespace \in TranslatorNamespaces, key \in TranslatorKeys,
        values \in TranslatorValues : Translate(namespace, key, values)
  \/ \E locale \in Locales : ValidateLocale(locale)
  \/ ValidateLocales

SpecCalls == Init /\ [][NextCalls]_vars

-----------------------------------------------------------------------------
(* Frame of the calls *)

-----------------------------------------------------------------------------
(* cli: the check command over directories of translation files *)

\* what a path of the command line holds: nothing, the JSON files of one
\* locale, a file that does not parse, or one subdirectory per locale
MissingDirectory == [kind |-> "missing"]
CorruptDirectory == [kind |-> "corrupt"]
LocaleDirectory(file) == [kind |-> "locale", file |-> file]
BaseDirectory(locales) == [kind |-> "base", locales |-> locales]

LoadError == [type |-> "throw", name |-> "Error"]

\* what a loader resolves to
Loaded(translations) == [type |-> "loaded", translations |-> translations]

\* readdir fails on a missing directory and JSON.parse on a corrupt file; a
\* directory without JSON files gives the empty translation file
loadTranslationsFromDirectory(dir) ==
  CASE dir.kind = "missing" -> LoadError
    [] dir.kind = "corrupt" -> LoadError
    [] dir.kind = "locale" -> Loaded(dir.file)
    [] OTHER -> Loaded(<< >>)

\* the subdirectories that load and have translations, one locale each
RECURSIVE LoadLocales(_, _)
LoadLocales(locales, i) ==
  IF i > Len(LocaleOrder) THEN << >>
  ELSE LET locale == LocaleOrder[i]
           translations ==
             IF locale \in DOMAIN locales
             THEN loadTranslationsFromDirectory(locales[locale])
             ELSE LoadError
       IN (IF translations.type = "loaded" /\ Len(translations.translations) > 0
           THEN <<LocaleFile(locale, translations.translations)>>
           ELSE << >>)
            \o LoadLocales(locales, i + 1)

loadAllLocaleTranslations(basePath) ==
  CASE basePath.kind = "missing" -> LoadError
    [] basePath.kind = "base" -> Loaded(LoadLocales(basePath.locales, 1))
    [] OTHER -> Loaded(<< >>)

\* hasErrors after validating each locale of localeTranslations
RECURSIVE EachLocaleHasErrors(_)
EachLocaleHasErrors(localeTranslations) ==
  IF localeTranslations = << >> THEN FALSE
  ELSE \/ ~validateTranslations(Head(localeTranslations).file).valid
       \/ EachLocaleHasErrors(Tail(localeTranslations))

\* the fallback loop over all paths: the exit status it ends with
RECURSIVE SingleLocaleLoop(_, _, _)
SingleLocaleLoop(paths, i, hasErrors) ==
  IF i > Len(paths) THEN (IF hasErrors THEN 1 ELSE 0)
  ELSE LET translations == loadTranslationsFromDirectory(paths[i])
       IN IF translations.type = "throw" THEN 1
          ELSE SingleLocaleLoop(paths, i + 1,
                                hasErrors
                                  \/ ~validateTranslations(translations.translations).valid)

\* the exit status of `colocale check paths...`
checkAction(paths) ==
  LET loaded == loadAllLocaleTranslations(paths[1])
      localeTranslations == loaded.translations
  IN IF loaded.type = "loaded" /\ Len(localeTranslations) > 0
     THEN LET hasErrors ==
                \/ EachLocaleHasErrors(localeTranslations)
                \/ /\ Len(localeTranslations) > 1
                   /\ ~validateCrossLocale(localeTranslations).valid
          IN IF hasErrors THEN 1 ELSE 0
     ELSE SingleLocaleLoop(paths, 1, FALSE)

-----------------------------------------------------------------------------
(* the check command over one or two paths *)

MaxPaths == 2

SubmitFile == <<Namespace(S_n, <<Entry(S_submit, StrVal(S_x))>>)>>
CancelFile == <<Namespace(S_n, <<Entry(S_cancel, StrVal(S_x))>>)>>
NestedFile == <<Namespace(S_n, <<Entry(S_profile, ObjVal)>>)>>

CheckFiles == {SubmitFile, CancelFile, NestedFile}

LocaleDirectories ==
  {LocaleDirectory(file) : file \in CheckFiles} \cup {CorruptDirectory}

BaseDirectories ==
  {BaseDirectory(locales) :
     locales \in UNION {[present -> LocaleDirectories] :
                          present \in (SUBSET {"en", "ja"}) \ {{}}}}

Directories == {MissingDirectory} \cup LocaleDirectories \cup BaseDirectories

InitCheck ==
  /\ catalog = [locale \in CatalogLocales |-> File(locale, {}, {})]
  /\ requirements = [isArray |-> FALSE, item |-> PageRequirement]
  /\ messages = NoMessages
  /\ call \in {[fn |-> "check", paths |-> paths] :
                 paths \in SeqsUpTo(Directories, MaxPaths) \ {<< >>}}
  /\ result = Undefined
  /\ op = "init"

Check ==
  /\ op = "init"
  /\ result' = [type |-> "exit", status |-> checkAction(call.paths)]
  /\ op' = "check"
  /\ UNCHANGED <<catalog, requirements, messages, call>>

NextCheck == Check

SpecCheck == InitCheck /\ [][NextCheck]_vars

-----------------------------------------------------------------------------
(* Exit status of the check command *)

\* the locales under a path, each with what its directory holds
LocaleDirectoriesOf(dir) ==
  IF dir.kind = "base" THEN {dir.locales[l] : l \in DOMAIN dir.locales} ELSE {dir}

\* dir was loaded and every locale in it is valid
LoadedAndValid(dir) ==
  \A d \in LocaleDirectoriesOf(dir) :
    /\ d.kind = "locale"
    /\ validateTranslations(d.file).valid

\* the locales of a base directory agree with each other
CrossLocaleValid(dir) ==
  dir.kind = "base" /\ Cardinality(DOMAIN dir.locales) > 1 =>
    validateCrossLocale(LoadLocales(dir.locales, 1)).valid

\* C23: the check command exits with status 0 exactly when every directory
\* of the command line was loaded and validated, every result of a locale is
\* valid, and the result across the locales, when two or more locales were
\* loaded, is valid too.
C23_ExitStatusIsAggregateValidity ==
  op = "check" =>
    (result.status = 0 <=>
       \A i \in 1..Len(call.paths) :
         LoadedAndValid(call.paths[i]) /\ CrossLocaleValid(call.paths[i]))

\* the first path decides alone: a base directory of locales that load and
\* agree ends the command with status 0 whatever the other paths hold
C23_LaterPathIgnored ==
  /\ op = "check"
  /\ Len(call.paths) = 2
  /\ call.paths[1].kind = "base"
  /\ LoadedAndValid(call.paths[1])
  /\ call.paths[2] \in {MissingDirectory, LocaleDirectory(NestedFile)}
  /\ result.status = 0

-----------------------------------------------------------------------------
(* replacePlaceholders applied to its own output *)

\* values whose text holds their own key or their own placeholder
SelfValues ==
  {Values(<<Entry(S_x, StrVal(<<"x", "x">>))>>),
   Values(<<Entry(S_name, StrVal(OPEN \o S_name \o CLOSE))>>)}

TwiceValues == SubstituterValues \cup SelfValues

\* templates with the placeholder x beside those of the substituter
TwiceTemplates ==
  Templates \cup {OPEN \o S_x \o CLOSE, OPEN \o S_x \o CLOSE \o S_x}

InitTwice ==
  /\ catalog = [locale \in CatalogLocales |-> File(locale, {}, {})]
  /\ requirements = [isArray |-> FALSE, item |-> PageRequirement]
  /\ messages = NoMessages
  /\ call \in {[fn |-> "replacePlaceholders", template |-> template, values |-> values] :
                 template \in TwiceTemplates, values \in TwiceValues}
  /\ result = Undefined
  /\ op = "init"

\* the output of one call is given to a second call with the same values
SubstituteTwice ==
  /\ op = "init"
  /\ LET once == replacePlaceholders(call.template, call.values)
     IN result' = [once |-> once, twice |-> replacePlaceholders(once, call.values)]
  /\ op' = "substituteTwice"
  /\ UNCHANGED <<catalog, requirements, messages, call>>

NextTwice == SubstituteTwice

SpecTwice == InitTwice /\ [][NextTwice]_vars

-----------------------------------------------------------------------------
(* Idempotence of substitution *)

\* text has no brace pair around characters that are not braces
NoPlaceholderSyntax(text) ==
  \A i \in 1..Len(text) : \A len \in 1..Len(text) : ~SpanAt(text, i, len)

\* C24: when the output of a substitution holds no placeholder syntax, a
\* second substitution with the same values returns it unchanged.
C24_Idempotent ==
  op = "substituteTwice" /\ NoPlaceholderSyntax(result.once) =>
    result.twice = result.once

\* C24 witness: a placeholder was replaced by a text that holds its own key,
\* the output has no placeholder syntax, and the second call changed nothing
C24_Witness ==
  /\ op = "substituteTwice"
  /\ call.values = Values(<<Entry(S_x, StrVal(<<"x", "x">>))>>)
  /\ result.once # call.template
  /\ NoPlaceholderSyntax(result.once)
  /\ result.twice = result.once

\* an output that still holds placeholder syntax can change again: the value
\* of a, spelt like the placeholder b, is replaced by the second call when
\* the entry of b comes before the entry of a
C24_WitnessChained ==
  /\ op = "substituteTwice"
  /\ ~NoPlaceholderSyntax(result.once)
  /\ result.twice # result.once

-----------------------------------------------------------------------------
(* index: createTranslator over the replacePlaceholders that checks for     *)
(* missing values                                                           *)

\* mutant: the values are substituted without the check for missing ones
createTranslatorStrictNoThrow(msgs, requirement, key, values) ==
  createTranslator(msgs, requirement, key, values)

createTranslatorStrict(msgs, requirement, key, values) ==
  LET namespace == requirement.namespace
      locale == msgs.locale
      plural == IF HasNumericCount(values)
                THEN resolvePluralMessage(msgs.translations, namespace, key,
                                          CountOf(values), locale)
                ELSE Undefined
      message == IF plural = Undefined
                 THEN Message(msgs.translations, namespace \o DOT \o key)
                 ELSE plural
  IN IF message = Undefined THEN StrVal(key)
     ELSE IF values # Undefined THEN replacePlaceholdersStrict(message.str, values)
     ELSE message

\* the keys of the page, the dotted key with two placeholders among them
StrictTranslatorKeys == TranslatorKeys \cup {S_pq}

TranslateStrict(namespace, key, values) ==
  /\ op = "pick"
  /\ result' = createTranslatorStrict(messages, [namespace |-> namespace], key, values)
  /\ call' = [fn |-> "t", namespace |-> namespace, key |-> key, values |-> values]
  /\ op' = "translateStrict"
  /\ UNCHANGED <<catalog, requirements, messages>>

NextTranslateStrict ==
  \/ \E locale \in Locales : PickMessages(locale)
  \/ \E namespace \in TranslatorNamespaces, key \in StrictTranslatorKeys,
        values \in TranslatorValues : TranslateStrict(namespace, key, values)

SpecTranslateStrict == Init /\ [][NextTranslateStrict]_vars

-----------------------------------------------------------------------------
(* Errors of a translator call *)

TranslatedStrict == op = "translateStrict"

\* the suffix of the entry the call resolves: the classified sibling, then
\* _other, then the literal key
ResolvedSuffix ==
  IF HasNumericCount(call.values) /\ Has(Classified) THEN Classified
  ELSE IF HasNumericCount(call.values) /\ Has(SUF_other) THEN SUF_other
  ELSE Literal

\* the resolved message has a placeholder that values has no key for
LacksValue ==
  /\ Has(ResolvedSuffix)
  /\ call.values # Undefined
  /\ \E i \in 1..Len(Translations[FullKey(ResolvedSuffix)]) :
        MissingAt(Translations[FullKey(ResolvedSuffix)], call.values, i) # {}

C25_WitnessVerbatim ==
  /\ TranslatedStrict
  /\ call.key = S_pq
  /\ call.values = Undefined
  /\ result = StrVal(<<"E">> \o OPEN \o S_name \o CLOSE \o OPEN \o S_other2 \o CLOSE)

-----------------------------------------------------------------------------
(* Validated catalogs and plural resolution *)

\* the file of the picked locale passes validateTranslations
PickedFileValid ==
  /\ messages.locale \in DOMAIN catalog
  /\ validateTranslations(NamespacesInOrder(catalog[messages.locale], 1)).valid

\* the called key has a plural sibling with a string value in that file
HasPluralSibling ==
  /\ call.namespace \in DOMAIN catalog[messages.locale]
  /\ \E suffix \in AllSuffixes :
       LET entries == catalog[messages.locale][call.namespace].entries
       IN /\ call.key \o suffix \in DOMAIN entries
          /\ entries[call.key \o suffix].type = "string"

\* C26: in a file that passes validateTranslations, a key with at least one
\* plural sibling, picked and translated with a numeric count, gives the
\* text of a sibling of its family and never the bare key.
C26_ValidFamilyAlwaysResolves ==
  (Counted /\ PickedFileValid /\ HasPluralSibling) =>
    /\ result # StrVal(call.key)
    /\ \E suffix \in AllSuffixes : Has(suffix) /\ result = Rendered(suffix)

\* a file whose only sibling of k is k_few passes the validation, and a count
\* outside the category few gets the bare key
C26_FewAloneGivesKey ==
  /\ Counted
  /\ PickedFileValid
  /\ HasPluralSibling
  /\ Has(SUF_few)
  /\ result = StrVal(call.key)

-----------------------------------------------------------------------------
(* One translator on the picked messages, one on all messages of the locale *)

\* the full keys of the string entries of a translation file
FullKeys(file) ==
  UNION {{namespace \o DOT \o key :
            key \in {k \in DOMAIN file[namespace].entries :
                       file[namespace].entries[k].type = "string"}} :
         namespace \in DOMAIN file}

\* the entry of file that fullKey names
EntryOf(file, fullKey) ==
  LET namespace == CHOOSE n \in DOMAIN file :
                     \E k \in DOMAIN file[n].entries : n \o DOT \o k = fullKey
      key == CHOOSE k \in DOMAIN file[namespace].entries :
               namespace \o DOT \o k = fullKey
  IN file[namespace].entries[key]

\* a Messages object holding every string entry of the locale
allMessagesOfLocale(localeMessages, locale) ==
  IF locale \in DOMAIN localeMessages
  THEN [locale |-> locale,
        translations |-> [fullKey \in FullKeys(localeMessages[locale]) |->
                            EntryOf(localeMessages[locale], fullKey).str]]
  ELSE [locale |-> locale, translations |-> EmptyMap]

\* the same call on the translator of the picked messages and on the
\* translator of all messages of the picked locale
TranslateBoth(key, values) ==
  /\ op = "pick"
  /\ LET requirement == RequirementsArray(requirements)[1]
     IN /\ result' =
             [picked |-> createTranslator(messages, requirement, key, values),
              full |-> createTranslator(allMessagesOfLocale(catalog, messages.locale),
                                        requirement, key, values)]
        /\ call' = [fn |-> "t", namespace |-> requirement.namespace, key |-> key,
                    values |-> values]
  /\ op' = "translateBoth"
  /\ UNCHANGED <<catalog, requirements, messages>>

NextBoth ==
  \/ \E locale \in Locales : PickMessages(locale)
  \/ \E key \in StrictTranslatorKeys, values \in TranslatorValues :
       TranslateBoth(key, values)

\* one requirement of the pool, given as such
InitBoth ==
  /\ catalog \in Catalogs
  /\ requirements \in {[isArray |-> FALSE, item |-> item] : item \in RequirementPool}
  /\ messages = NoMessages
  /\ call = NoCall
  /\ result = Undefined
  /\ op = "init"

SpecBoth == InitBoth /\ [][NextBoth]_vars

-----------------------------------------------------------------------------
(* The picked messages are enough for the translator *)

\* the called key is one of the keys of the requirement
Declared ==
  \E i \in 1..Len(RequirementsArray(requirements)[1].keys) :
    RequirementsArray(requirements)[1].keys[i] = call.key

\* C27: for a key of the requirement, the translator on the picked messages
\* returns what a translator on all entries of the locale returns, whatever
\* the count and the values: no entry the translator selects is left out.
C27_PickedIsEnough ==
  (op = "translateBoth" /\ Declared) => result.picked = result.full

\* C27 witness: Arabic, count 3 is of the category few, and both translators
\* return the text of k_few although the literal k is there too
C27_Witness ==
  /\ op = "translateBoth"
  /\ Declared
  /\ messages.locale = "ar"
  /\ HasNumericCount(call.values)
  /\ CountOf(call.values) = 3
  /\ Has(Literal)
  /\ Has(SUF_few)
  /\ result.picked = StrVal(<<"A", "F">>)
  /\ result.full = result.picked

-----------------------------------------------------------------------------
(* Counts with a sign and a fraction: the translator over Messages without  *)
(* a locale, under Intl.PluralRules("en") and under the 0/1/other scheme    *)

\* the number (negative ? -1 : 1) * (whole + tenths / 10)
Decimal(negative, whole, tenths) ==
  [type |-> "number", negative |-> negative, whole |-> whole, tenths |-> tenths]

\* String(count)
StringOfDecimal(count) ==
  (IF count.negative THEN <<"-">> ELSE << >>)
    \o NatToString(count.whole)
    \o (IF count.tenths # 0 THEN <<".">> \o NatToString(count.tenths) ELSE << >>)

\* new Intl.PluralRules("en").select(count): the operands are those of the
\* absolute value; one when the integer part is 1 and there is no fraction
PluralRulesSelectDecimal(count) ==
  IF count.whole = 1 /\ count.tenths = 0 THEN SUF_one ELSE SUF_other

selectPluralKeyDecimal(baseKey, count) ==
  baseKey \o PluralRulesSelectDecimal(count)

\* count === 0, count === 1
selectPluralKeyDecimalLegacy(baseKey, count) ==
  IF count.whole = 0 /\ count.tenths = 0 THEN baseKey \o SUF_zero
  ELSE IF ~count.negative /\ count.whole = 1 /\ count.tenths = 0 THEN baseKey \o SUF_one
  ELSE baseKey \o SUF_other

resolvePluralMessageDecimal(msgs, namespace, baseKey, count) ==
  LET selectedKey == selectPluralKeyDecimal(baseKey, count)
      fullKey == namespace \o DOT \o selectedKey
      otherKey == namespace \o DOT \o baseKey \o SUF_other
  IN IF fullKey \in DOMAIN msgs THEN Message(msgs, fullKey)
     ELSE IF otherKey \in DOMAIN msgs THEN Message(msgs, otherKey)
     ELSE Undefined

resolvePluralMessageDecimalLegacy(msgs, namespace, baseKey, count) ==
  LET selectedKey == selectPluralKeyDecimalLegacy(baseKey, count)
      fullKey == namespace \o DOT \o selectedKey
      otherKey == namespace \o DOT \o baseKey \o SUF_other
  IN IF fullKey \in DOMAIN msgs THEN Message(msgs, fullKey)
     ELSE IF count.whole = 0 /\ count.tenths = 0 /\ otherKey \in DOMAIN msgs
          THEN Message(msgs, otherKey)
     ELSE Undefined

\* t(key, { count }) of createTranslator(messages, requirement); plural is
\* the message resolvePluralMessage gave
TranslatorOfDecimal(msgs, requirement, key, count, plural) ==
  LET message == IF plural = Undefined
                 THEN Message(msgs, requirement.namespace \o DOT \o key)
                 ELSE plural
  IN IF message = Undefined THEN StrVal(key)
     ELSE StrVal(replacePlaceholders(
                   message.str,
                   Values(<<Entry(S_count, StrVal(StringOfDecimal(count)))>>)))

createTranslatorDecimal(msgs, requirement, key, count) ==
  TranslatorOfDecimal(msgs, requirement, key, count,
    resolvePluralMessageDecimal(msgs, requirement.namespace, key, count))

createTranslatorDecimalLegacy(msgs, requirement, key, count) ==
  TranslatorOfDecimal(msgs, requirement, key, count,
    resolvePluralMessageDecimalLegacy(msgs, requirement.namespace, key, count))

MaxWhole == 2

\* -0 is left out: it is 0 to ===, to Intl.PluralRules and to String
Decimals ==
  {Decimal(negative, whole, tenths) :
     negative \in BOOLEAN, whole \in 0..MaxWhole, tenths \in {0, 5}}
  \ {Decimal(TRUE, 0, 0)}

\* Messages of the namespace n: some of k, k_zero, k_one, k_other
DecimalMessages ==
  {[fullKey \in {S_n \o DOT \o key : key \in present} |->
      Text("ja", SubSeq(fullKey, 3, Len(fullKey)))] :
     present \in SUBSET {S_k, S_k \o SUF_zero, S_k \o SUF_one, S_k \o SUF_other}}

InitDecimal ==
  /\ catalog = [locale \in CatalogLocales |-> File(locale, {}, {})]
  /\ requirements = [isArray |-> FALSE, item |-> PageRequirement]
  /\ messages \in {[locale |-> "", translations |-> translations] :
                     translations \in DecimalMessages}
  /\ call \in {[fn |-> "t", namespace |-> S_n, key |-> S_k, count |-> count] :
                 count \in Decimals}
  /\ result = Undefined
  /\ op = "init"

TranslateDecimal ==
  /\ op = "init"
  /\ result' = createTranslatorDecimal(messages.translations, PageRequirement,
                                       call.key, call.count)
  /\ op' = "translateDecimal"
  /\ UNCHANGED <<catalog, requirements, messages, call>>

TranslateDecimalLegacy ==
  /\ op = "init"
  /\ result' = createTranslatorDecimalLegacy(messages.translations, PageRequirement,
                                             call.key, call.count)
  /\ op' = "translateDecimalLegacy"
  /\ UNCHANGED <<catalog, requirements, messages, call>>

NextDecimal == TranslateDecimal \/ TranslateDecimalLegacy

SpecDecimal == InitDecimal /\ [][NextDecimal]_vars

-----------------------------------------------------------------------------
(* Negative and fractional counts *)

\* k_zero, k_one and k_other are all in the resolved set
ThreeSiblings ==
  \A suffix \in {SUF_zero, SUF_one, SUF_other} :
    S_n \o DOT \o S_k \o suffix \in DOMAIN Translations

OtherWithCount ==
  StrVal(<<"J">> \o StringOfDecimal(call.count) \o <<"x">>)

\* C28: with k_zero, k_one and k_other resolved, a negative count and a
\* count with a fraction get the _other text with the count substituted
\* ("J{{count}}x" gives "J-1x" and "J0.5x").
C28_NegativeAndFractionAreOther ==
  (/\ op \in {"translateDecimal", "translateDecimalLegacy"}
   /\ ThreeSiblings
   /\ call.count.negative \/ call.count.tenths # 0)
    => result = OtherWithCount

\* under Intl.PluralRules("en") the count -1 is of the category one and gets
\* the text of k_one
C28_MinusOneIsOne ==
  /\ op = "translateDecimal"
  /\ ThreeSiblings
  /\ call.count = Decimal(TRUE, 1, 0)
  /\ result = StrVal(<<"J", "O">>)

-----------------------------------------------------------------------------
(* mergeRequirements of two merged requirements next to mergeRequirements   *)
(* of the four requirements                                                 *)

\* requirements of four namespaces, two of them of the namespace n
RegroupPool == MergedPool \cup {[namespace |-> S_x, keys |-> <<S_k>>]}

One(req) == [isArray |-> FALSE, item |-> req]

InitRegroup ==
  /\ catalog = [locale \in CatalogLocales |-> File(locale, {}, {})]
  /\ requirements = [isArray |-> FALSE, item |-> PageRequirement]
  /\ messages = NoMessages
  /\ call \in {[fn |-> "mergeRequirements", a |-> a, b |-> b, c |-> c, d |-> d] :
                 a \in RegroupPool, b \in RegroupPool,
                 c \in RegroupPool, d \in RegroupPool}
  /\ result = Undefined
  /\ op = "init"

Regroup ==
  /\ op = "init"
  /\ LET merged1 == mergeRequirementsMerged(<<One(call.a), One(call.b)>>)
         merged2 == mergeRequirementsMerged(<<One(call.c), One(call.d)>>)
     IN result' =
          [nested |-> mergeRequirementsMerged(<<One(merged1), One(merged2)>>),
           flat |-> mergeRequirementsMerged(<<One(call.a), One(call.b),
                                              One(call.c), One(call.d)>>)]
  /\ op' = "regroup"
  /\ UNCHANGED <<catalog, requirements, messages, call>>

NextRegroup == Regroup

SpecRegroup == InitRegroup /\ [][NextRegroup]_vars

-----------------------------------------------------------------------------
(* Grouping of merges *)

Regrouped == op = "regroup"

KeySet(req) == {req.keys[i] : i \in 1..Len(req.keys)}

NoDuplicates(keys) ==
  \A i \in 1..Len(keys) : \A j \in 1..Len(keys) : keys[i] = keys[j] => i = j

\* a, b, c and d are of four different namespaces
DistinctNamespaces ==
  Cardinality({call.a.namespace, call.b.namespace,
               call.c.namespace, call.d.namespace}) = 4

C29_WitnessDistinct ==
  /\ Regrouped
  /\ DistinctNamespaces
  /\ Len(result.flat.keys) >= 4
  /\ result.nested = result.flat

-----------------------------------------------------------------------------
(* pickMessages over keys with dots *)

S_p == <<"p">>

\* the text of a flat entry, telling the keys apart
DottedText(key) == StrVal(<<"T">> \o key)

\* the flat entries p.q, p.q_one, p.q_few, p.q_other, and the object p with
\* an entry q
DottedKeys == {S_pq, S_pq \o SUF_one, S_pq \o SUF_few, S_pq \o SUF_other, S_p}

DottedEntries(present) ==
  [key \in present |->
     IF key = S_p THEN NestedObj([inner \in {S_q, S_q \o SUF_one} |-> StrVal(<<"N">>)])
     ELSE DottedText(key)]

DottedCatalogs ==
  {[locale \in {"en", "ja"} |->
      [namespace \in {S_n} |-> [type |-> "object", entries |-> DottedEntries(present)]]] :
     present \in SUBSET DottedKeys}

DottedRequirements ==
  {[isArray |-> TRUE, items |-> <<[namespace |-> S_n, keys |-> <<S_pq>>]>>],
   [isArray |-> TRUE, items |-> <<[namespace |-> S_n, keys |-> <<S_p, S_pq>>]>>]}

InitDotted ==
  /\ catalog \in DottedCatalogs
  /\ requirements \in DottedRequirements
  /\ messages = NoMessages
  /\ call = NoCall
  /\ result = Undefined
  /\ op = "init"

NextDotted == \E locale \in Locales : PickMessages(locale)

SpecDotted == InitDotted /\ [][NextDotted]_vars

-----------------------------------------------------------------------------
(* Dots in keys *)

\* the keys a requirement of the base key p.q can resolve
DottedFamily == {S_pq} \cup {S_pq \o suffix : suffix \in AllSuffixes}

C30_WitnessObjectOnly ==
  /\ Picked
  /\ DOMAIN catalog[PickedLocale][S_n].entries = {S_p}
  /\ DOMAIN Translations = {}

====
